---- MODULE Spec2Model ----
(***************************************************************************)
(* A model of src/objects/backing-store.cc: the address-space accounting   *)
(* counter, the Wasm backing-store allocator (guard regions, three         *)
(* retryable phases), in-place growth, and the global backing-store        *)
(* registry with its lists of attached shared memory objects.              *)
(*                                                                         *)
(* Unit of size and address: one Wasm page (64 KiB).  Every size the       *)
(* allocator computes is a multiple of it, so GB = 16384 units.  TLC's     *)
(* integers are 32 bits wide, so the 64-bit word of the counter is kept as *)
(* WordMod units, far above every constant of the program.                 *)
(***************************************************************************)
EXTENDS Integers, Sequences, FiniteSets, TLC

VARIABLES
  arch,                     \* the build: "x64", "mips64" or "ia32"
  FLAG_correctness_fuzzer_suppressions,  \* the runtime flag read at line 282
  DEBUG,                    \* the build evaluates DCHECKs
  reserved_address_space_,  \* the atomic counter (line 39)
  thr,                      \* accounting threads: position and locals
  held,                     \* what each thread has reserved and not released
  underflow,                \* a ReleaseReservation found num_bytes > old
  store,                    \* the BackingStore objects
  pages,                    \* the regions the page allocator has handed out
  node,                     \* the SharedWasmMemoryData objects on the C++ heap
  map_,                     \* the registry: start address -> weak pointer
  alloc,                    \* the AllocateWasmMemory call in progress
  ext_held,                 \* address space reserved by other users
  fatal,                    \* how the process was terminated, or "none"
  last,                     \* the last call that returned, and its result
  view,                     \* the WasmMemoryObjects and their array buffers
  grow_requested,           \* per isolate: RequestGrowSharedMemory was called
  bcast,                    \* per isolate: its broadcast in progress
  mutex_,                   \* the isolate whose thread holds impl()->mutex_
  upd,                      \* per isolate: its UpdateSharedWasmMemoryObjects
  dtor,                     \* per store: how far ~BackingStore has come
  walk                      \* the Purge that walks the map entry by entry

acctVars == <<thr, held>>
storeVars == <<store, pages, node, map_, alloc, ext_held, fatal, last>>
shareVars == <<view, grow_requested, bcast>>
lockVars == <<mutex_, upd>>
build == <<arch, FLAG_correctness_fuzzer_suppressions, DEBUG>>
vars == <<arch, FLAG_correctness_fuzzer_suppressions, DEBUG,
          reserved_address_space_, thr, held, underflow,
          store, pages, node, map_, alloc, ext_held, fatal, last,
          view, grow_requested, bcast, mutex_, upd, dtor, walk>>

----------------------------------------------------------------------------
\* Bounds of the model.
NThreads == 2
MaxHeld == 1
WordMod == 1073741824

\* Program constants, in pages of 64 KiB.
GB == 16384
kNegativeGuardSize == 2 * GB
kFullGuardSize == 10 * GB

Archs == {"x64", "mips64", "ia32"}

kUseGuardRegions(a) == a \in {"x64", "mips64"}

kAddressSpaceLimit(a) ==
  CASE a = "mips64" -> 256 * GB
    [] a = "x64"    -> 1024 * GB + 4 * GB
    [] OTHER        -> 3 * GB

Threads == 1..NThreads

RECURSIVE SumSeq(_)
SumSeq(s) == IF s = <<>> THEN 0 ELSE Head(s) + SumSeq(Tail(s))

RemoveAt(s, i) == SubSeq(s, 1, i - 1) \o SubSeq(s, i + 1, Len(s))

----------------------------------------------------------------------------
\* The objects of the program.

MaxStores == 2
MaxLive == 1
MaxNodes == 3
MaxViews == 2

nullptr == 0
kWasmPageSize == 1
kV8MaxWasmMemoryPages == 65536

StoreIds == 1..MaxStores
NodeIds == 1..MaxNodes
ViewIds == 1..MaxViews
\* Two isolates share the process: A = 1 and B = 2.
Isolates == {1, 2}

\* type_specific_data_: the union of the array-buffer allocator and the
\* list anchor; "null" when neither was stored.
NoData == [kind |-> "null", ptr |-> nullptr]

\* A BackingStore that does not exist (never created, or destructed).
\* req_maximum is not a field of the program: it remembers the maximum_pages
\* argument of the AllocateWasmMemory call that made the store.
FreedStore ==
  [live |-> FALSE, buffer_start_ |-> nullptr, byte_length_ |-> 0,
   byte_capacity_ |-> 0, is_shared_ |-> FALSE, is_wasm_memory_ |-> FALSE,
   free_on_destruct_ |-> FALSE, has_guard_regions_ |-> FALSE,
   globally_registered_ |-> FALSE, data |-> NoData, req_maximum |-> 0]

\* Lines 107-120: a SharedWasmMemoryData; used = FALSE once deleted.
FreedNode ==
  [used |-> FALSE, next_ |-> nullptr, prev_ |-> nullptr, isolate_ |-> nullptr,
   memory_object_ |-> nullptr]

\* A WasmMemoryObject with its array buffer: the store the buffer is
\* attached to and the byte length it reports.  state is "none" (no such
\* object), "live", or "dead" (collected, its weak global handle destroyed
\* by NopFinalizer, lines 486-490).
FreedView ==
  [state |-> "none", isolate |-> nullptr, buffer_store |-> 0, byte_length |-> 0]

IdleBroadcast ==
  [pc |-> "idle", store |-> 0, new_size |-> 0, memory_objects |-> <<>>,
   length_at_call |-> 0]

\* An UpdateSharedWasmMemoryObjects call that is not running; the two
\* vectors of lines 618-619.
IdleUpdate ==
  [pc |-> "idle", backing_stores |-> <<>>, memory_objects |-> <<>>,
   seen |-> <<>>]

\* No Purge is walking the map.
IdleWalk ==
  [pc |-> "idle", isolate |-> nullptr, keys |-> {}, backing_store |-> 0,
   last_owner |-> FALSE]

NoViews ==
  /\ view = [v \in ViewIds |-> FreedView]
  /\ grow_requested = [c \in Isolates |-> FALSE]
  /\ bcast = [c \in Isolates |-> IdleBroadcast]
  /\ mutex_ = nullptr
  /\ upd = [c \in Isolates |-> IdleUpdate]
  /\ dtor = [s \in StoreIds |-> "none"]
  /\ walk = IdleWalk

IdleAlloc ==
  [pc |-> "idle", initial_pages |-> 0, maximum_pages |-> 0, req_maximum |-> 0,
   shared |-> FALSE, run |-> 0, i |-> 0, did_retry |-> FALSE,
   allocation_base |-> nullptr, status |-> "none", old |-> 0,
   requests |-> 0]

\* What a call returned: ok is its result (true, or a non-empty store), perm
\* whether it asked the page allocator for a permission change, notified and
\* delta the external-memory adjustment it reported, status the last
\* AllocationStatus it passed to RecordStatus, requests the number of
\* memory-pressure notifications its last gc_retry sent, called whether it
\* called the embedder's allocator (Allocate or Free) and got the address
\* that Allocate returned or that was passed to Free.
NoCall == [op |-> "none", store |-> 0, arg |-> 0, ok |-> FALSE,
           perm |-> FALSE, notified |-> FALSE, delta |-> 0, status |-> "none",
           requests |-> 0, called |-> FALSE, got |-> nullptr,
   copied |-> 0]
Returned(op, s, arg, ok) ==
  [op |-> op, store |-> s, arg |-> arg, ok |-> ok,
   perm |-> FALSE, notified |-> FALSE, delta |-> 0, status |-> "none",
   requests |-> 0, called |-> FALSE, got |-> nullptr,
   copied |-> 0]

LiveStores == {s \in StoreIds : store[s].live}

Min(a, b) == IF a <= b THEN a ELSE b

\* The lowest identity not in use: what `new` returns.
NewStoreId(st) == CHOOSE s \in StoreIds :
  ~st[s].live /\ \A r \in StoreIds : ~st[r].live => s <= r
NewNodeId(nd) == CHOOSE n \in NodeIds :
  ~nd[n].used /\ \A m \in NodeIds : ~nd[m].used => n <= m

\* The page allocator places a reservation at one of these bases.
SlotBase(k) == k * 16 * GB
FreeSlotBases(pg) ==
  {SlotBase(k) : k \in {j \in 1..MaxLive :
                          \A r \in pg : r[1] # SlotBase(j)}}

----------------------------------------------------------------------------
\* ReserveAddressSpace / ReleaseReservation, one step per atomic access.

\* A compare that adds first: the sum wraps in the 64-bit word.
CanReserveWrapping(a, old_count, num_bytes) ==
  (old_count + num_bytes) % WordMod <= kAddressSpaceLimit(a)

\* Lines 89-90: neither early return is taken.
CanReserve(a, old_count, num_bytes) ==
  /\ ~(old_count > kAddressSpaceLimit(a))
  /\ ~(kAddressSpaceLimit(a) - old_count < num_bytes)

\* A plain store in place of the compare-and-swap: never fails.
CompareExchangeBlind(current, expected) == current = current

\* Line 91: the exchange can take place only if the counter still holds
\* old_count (a weak exchange may also fail spuriously, see ReserveCas).
CompareExchange(current, expected) == current = expected

\* fetch_add where fetch_sub is meant.
FetchAdd(old_reserved, num_bytes) == (old_reserved + num_bytes) % WordMod

\* Line 99: fetch_sub on a 64-bit unsigned counter.
FetchSub(old_reserved, num_bytes) == (old_reserved - num_bytes) % WordMod

\* The amounts a thread may ask for: small, the whole ceiling, and the
\* largest amount a word holds.
ReserveSizes(a) ==
  {GB, kAddressSpaceLimit(a), WordMod - 1}

IdleThread == [pc |-> "idle", num_bytes |-> 0, old_count |-> 0, ret |-> "none"]

\* A thread calls ReserveAddressSpace(n).
ReserveCall(t) ==
  /\ thr[t].pc = "idle"
  /\ Len(held[t]) < MaxHeld
  /\ \E n \in ReserveSizes(arch) :
       thr' = [thr EXCEPT ![t] = [pc |-> "load", num_bytes |-> n,
                                  old_count |-> 0, ret |-> "none"]]
  /\ UNCHANGED <<build, walk, dtor, reserved_address_space_, held, underflow>>
  /\ UNCHANGED storeVars
  /\ UNCHANGED shareVars
  /\ UNCHANGED lockVars

\* A loop that loads again instead of returning false when the amount does
\* not fit.
ReserveLoadSpins(t) ==
  /\ thr[t].pc = "load"
  /\ IF CanReserve(arch, reserved_address_space_, thr[t].num_bytes)
       THEN thr' = [thr EXCEPT ![t].pc = "cas",
                               ![t].old_count = reserved_address_space_]
       ELSE thr' = [thr EXCEPT ![t].old_count = reserved_address_space_]
  /\ UNCHANGED <<build, walk, dtor, reserved_address_space_, held, underflow>>
  /\ UNCHANGED storeVars
  /\ UNCHANGED shareVars
  /\ UNCHANGED lockVars

\* Lines 88-90: load the counter, return false if the amount does not fit.
ReserveLoad(t) ==
  /\ thr[t].pc = "load"
  /\ IF CanReserve(arch, reserved_address_space_, thr[t].num_bytes)
       THEN thr' = [thr EXCEPT ![t].pc = "cas",
                               ![t].old_count = reserved_address_space_]
       ELSE thr' = [thr EXCEPT ![t].pc = "idle",
                               ![t].old_count = reserved_address_space_,
                               ![t].ret = "reserve_false"]
  /\ UNCHANGED <<build, walk, dtor, reserved_address_space_, held, underflow>>
  /\ UNCHANGED storeVars
  /\ UNCHANGED shareVars
  /\ UNCHANGED lockVars

\* Lines 91-94: compare_exchange_weak; on failure (the counter moved, or a
\* spurious failure) the loop loads again.
ReserveCas(t) ==
  /\ thr[t].pc = "cas"
  /\ \/ /\ CompareExchange(reserved_address_space_, thr[t].old_count)
        /\ reserved_address_space_' =
             (thr[t].old_count + thr[t].num_bytes) % WordMod
        /\ thr' = [thr EXCEPT ![t] = [pc |-> "idle", num_bytes |-> 0,
                                      old_count |-> 0,
                                      ret |-> "reserve_true"]]
        /\ held' = [held EXCEPT ![t] = Append(@, thr[t].num_bytes)]
     \/ /\ thr' = [thr EXCEPT ![t].pc = "load"]
        /\ UNCHANGED <<reserved_address_space_, held>>
  /\ UNCHANGED <<build, walk, dtor, underflow>>
  /\ UNCHANGED storeVars
  /\ UNCHANGED shareVars
  /\ UNCHANGED lockVars

\* Lines 98-102: a thread releases an amount it reserved before.
ReleaseReservation(t) ==
  /\ thr[t].pc = "idle"
  /\ \E i \in 1..Len(held[t]) :
       LET n == held[t][i] IN
       /\ reserved_address_space_' = FetchSub(reserved_address_space_, n)
       /\ underflow' = (underflow \/ ~(n <= reserved_address_space_))
       /\ held' = [held EXCEPT ![t] = RemoveAt(@, i)]
       /\ thr' = [thr EXCEPT ![t] = [pc |-> "idle", num_bytes |-> 0,
                                     old_count |-> 0, ret |-> "released"]]
  /\ UNCHANGED <<build, walk, dtor>>
  /\ UNCHANGED storeVars
  /\ UNCHANGED shareVars
  /\ UNCHANGED lockVars

----------------------------------------------------------------------------
\* Guard regions and the sizes TryAllocateWasmMemory computes.

\* An envelope that starts one GB too late and ends at the accessible length.
GetGuardedRegionByLength(buffer_start, byte_length) ==
  [begin |-> (buffer_start - GB) % WordMod, size |-> GB + byte_length]

\* Lines 55-67.
GetGuardedRegion(buffer_start, byte_length) ==
  [begin |-> (buffer_start - (2 * GB)) % WordMod, size |-> kFullGuardSize]

\* A reservation of the capacity alone, also when there are guard regions.
ReservationSizeNoGuards(a, maximum_pages) ==
  Min(maximum_pages, kV8MaxWasmMemoryPages) * kWasmPageSize

\* Lines 263-271: reservation_size.
ReservationSize(a, maximum_pages) ==
  IF kUseGuardRegions(a)
    THEN kFullGuardSize
    ELSE Min(maximum_pages, kV8MaxWasmMemoryPages) * kWasmPageSize

\* A capacity taken from maximum_pages alone, forgetting the engine limit.
ByteCapacityNoLimit(a, maximum_pages) == maximum_pages * kWasmPageSize

\* Lines 263-271: byte_capacity.
ByteCapacity(a, maximum_pages) ==
  IF kUseGuardRegions(a)
    THEN kV8MaxWasmMemoryPages * kWasmPageSize
    ELSE ReservationSize(a, maximum_pages)

\* Lines 308-309: buffer_start skips the negative guard region.
BufferStart(a, allocation_base) ==
  allocation_base + (IF kUseGuardRegions(a) THEN kNegativeGuardSize ELSE 0)

----------------------------------------------------------------------------
\* The part of the state a destructor works on, as one value.

\* freed collects the addresses an operation passes to allocator->Free.
Heap == [store |-> store, pages |-> pages, node |-> node, map_ |-> map_,
         reserved |-> reserved_address_space_, underflow |-> underflow,
         fatal |-> fatal, freed |-> {}]

SetHeap(H) ==
  /\ store' = H.store
  /\ pages' = H.pages
  /\ node' = H.node
  /\ map_' = H.map_
  /\ reserved_address_space_' = H.reserved
  /\ underflow' = H.underflow
  /\ fatal' = H.fatal

\* std::unordered_map erase and insert; insert leaves an existing entry alone.
MapErase(m, key) == [k \in DOMAIN m \ {key} |-> m[k]]
MapInsert(m, key, val) ==
  [k \in DOMAIN m \cup {key} |-> IF k \in DOMAIN m THEN m[k] ELSE val]

\* Register that replaces the entry of an address already registered.
RegisterReplacing(H, s) ==
  IF s = 0
    THEN H
  ELSE IF H.store[s].globally_registered_
    THEN H
  ELSE [H EXCEPT !.map_ = [k \in DOMAIN @ \cup {H.store[s].buffer_start_} |->
                            IF k = H.store[s].buffer_start_ THEN s ELSE @[k]],
                 !.store[s].globally_registered_ = TRUE]

\* Lines 493-505: Register; s = 0 is the empty shared_ptr.  The CHECK of
\* line 503 fails when the start address is already a key.
Register(H, s) ==
  IF s = 0
    THEN H
  ELSE IF H.store[s].globally_registered_
    THEN H
  ELSE IF H.store[s].buffer_start_ \in DOMAIN H.map_
    THEN [H EXCEPT !.fatal = "check"]
  ELSE [H EXCEPT !.map_ = MapInsert(@, H.store[s].buffer_start_, s),
                 !.store[s].globally_registered_ = TRUE]

\* Unregister that clears the flag and forgets to erase the entry.
UnregisterFlagOnly(H, s) ==
  [H EXCEPT !.store[s].globally_registered_ = FALSE]

\* Unregister without the early return of line 508.
UnregisterAlways(H, s) ==
  [H EXCEPT !.map_ = MapErase(@, H.store[s].buffer_start_),
            !.store[s].globally_registered_ = FALSE]

\* Lines 507-520: Unregister.
Unregister(H, s) ==
  IF ~H.store[s].globally_registered_
    THEN H
    ELSE [H EXCEPT !.map_ = MapErase(@, H.store[s].buffer_start_),
                   !.store[s].globally_registered_ = FALSE]

\* Lines 522-534: Lookup; 0 is the empty result.
Lookup(m, st, buffer_start) ==
  IF buffer_start \notin DOMAIN m
    THEN 0
  ELSE IF st[m[buffer_start]].live THEN m[buffer_start] ELSE 0

\* Lines 149-153: delete every node from n on, following next_.
RECURSIVE DeleteList(_, _)
DeleteList(nd, n) ==
  IF n = nullptr \/ ~nd[n].used
    THEN nd
    ELSE DeleteList([nd EXCEPT ![n] = FreedNode], nd[n].next_)

\* A release that leaves the counter as it is.
HeapReleaseSkipped(H, num_bytes) == H

\* Lines 98-102 on a heap value.
HeapRelease(H, num_bytes) ==
  [H EXCEPT !.reserved = FetchSub(H.reserved, num_bytes),
            !.underflow = H.underflow \/ ~(num_bytes <= H.reserved)]

\* A destructor that frees whether or not the store owns its memory.
FreedByAllocatorAlways(bs) == {bs.buffer_start_}

\* Lines 173-180: what the destructor of a store that is no Wasm memory
\* passes to allocator->Free.
FreedByAllocator(bs) ==
  IF bs.free_on_destruct_ THEN {bs.buffer_start_} ELSE {}

\* Lines 137-182: ~BackingStore, then the object is gone.
Destruct(H, s) ==
  LET bs == H.store[s]
      H1 == IF bs.globally_registered_ THEN Unregister(H, s) ELSE H
      gone == [H1.store EXCEPT ![s] = FreedStore]
      list_ok == bs.data.kind = "list" /\ bs.data.ptr # nullptr
      nd2 == IF bs.is_shared_ THEN DeleteList(H1.node, bs.data.ptr)
                              ELSE H1.node
      region == IF bs.has_guard_regions_
                  THEN GetGuardedRegion(bs.buffer_start_, bs.byte_length_)
                  ELSE [begin |-> bs.buffer_start_, size |-> bs.byte_capacity_]
      pages_were_freed ==
        region.size = 0 \/ <<region.begin, region.size>> \in H1.pages
  IN
  IF bs.buffer_start_ = nullptr
    THEN [H1 EXCEPT !.store = gone]
  ELSE IF bs.is_wasm_memory_
    THEN IF bs.is_shared_ /\ ~list_ok
           THEN [H1 EXCEPT !.fatal = "check"]
         ELSE IF ~pages_were_freed
           THEN [H1 EXCEPT !.node = nd2, !.fatal = "check"]
         ELSE HeapRelease(
                [H1 EXCEPT !.store = gone, !.node = nd2,
                           !.pages = @ \ {<<region.begin, region.size>>}],
                IF bs.has_guard_regions_ THEN kFullGuardSize
                                         ELSE bs.byte_capacity_)
  ELSE IF bs.free_on_destruct_ /\ bs.data.kind # "allocator"
    THEN [H1 EXCEPT !.fatal = "check"]
  ELSE [H1 EXCEPT !.store = gone, !.freed = @ \cup FreedByAllocator(bs)]

\* Lines 253-254: MemoryPressureNotification lets the collector run; it may
\* drop the last reference of a store (g), whose destructor then runs.
AfterPressure(H, g) == IF g = 0 THEN H ELSE Destruct(H, g)

----------------------------------------------------------------------------
Init ==
  /\ arch \in Archs
  /\ FLAG_correctness_fuzzer_suppressions = FALSE
  /\ DEBUG = FALSE
  /\ reserved_address_space_ = 0
  /\ thr = [t \in Threads |-> IdleThread]
  /\ held = [t \in Threads |-> <<>>]
  /\ underflow = FALSE
  /\ store = [s \in StoreIds |-> FreedStore]
  /\ pages = {}
  /\ node = [n \in NodeIds |-> FreedNode]
  /\ map_ = <<>>
  /\ alloc = IdleAlloc
  /\ ext_held = 0
  /\ fatal = "none"
  /\ last = NoCall
  /\ NoViews

AcctNext ==
  \E t \in Threads :
    \/ ReserveCall(t)
    \/ ReserveLoad(t)
    \/ ReserveCas(t)
    \/ ReleaseReservation(t)

SpecAcct == Init /\ [][AcctNext]_vars

----------------------------------------------------------------------------
\* AllocateWasmMemory and TryAllocateWasmMemory, one step per attempt of a
\* phase (gc_retry, lines 247-257).

InitialChoices == {0, 1, 10, kV8MaxWasmMemoryPages + 1}
MaximumChoices == {1, 10, kV8MaxWasmMemoryPages + 1}
GrowChoices == {5, 11, kV8MaxWasmMemoryPages + 1}

\* What a collection triggered by a failed attempt may destruct: nothing (0)
\* or one store, other than the one CopyWasmMemory holds as `old`.
Collectable == {0} \cup (LiveStores \ {alloc.old})

\* The entry point that started the allocation in progress.
CallName(al) == IF al.old = 0 THEN "AllocateWasmMemory" ELSE "CopyWasmMemory"

\* A retry after every failed first run, whatever the maximum was.
RetriesWhenever(al) == al.run = 1

\* Lines 360-366: after a run that returned empty, AllocateWasmMemory runs
\* once more with maximum = initial if maximum_pages > initial_pages.
RetriesWithInitial(al) == al.run = 1 /\ al.maximum_pages > al.initial_pages

\* Lines 248-255: the notifications gc_retry has sent after `failed` failed
\* attempts: one after each, the last one included.
Notifications(failed) == failed

\* A run that records kOtherFailure in whichever phase it gives up.
FailureStatusOther(pc) == "kOtherFailure"

\* Lines 285 and 302: the status a run records when it gives up in a phase.
FailureStatus(pc) ==
  IF pc = "phase1" THEN "kAddressSpaceLimitReachedFailure"
                   ELSE "kOtherFailure"

AfterFailedRun(al) ==
  IF RetriesWithInitial(al)
    THEN [al EXCEPT !.pc = "phase1", !.run = 2,
                    !.maximum_pages = al.initial_pages, !.i = 0,
                    !.did_retry = FALSE, !.allocation_base = nullptr,
                    !.status = FailureStatus(al.pc),
                    !.requests = Notifications(al.i + 1)]
    ELSE IdleAlloc

LastAfterFailedRun(al) ==
  IF RetriesWithInitial(al)
    THEN last
    ELSE [Returned(CallName(al), 0, al.initial_pages, FALSE)
            EXCEPT !.status = FailureStatus(al.pc),
                   !.requests = Notifications(al.i + 1)]

\* A call that returns empty only when the maximum is beyond the engine's
\* limit as well.
AllocateWasmMemoryByMaximum(initial_pages, maximum_pages, shared) ==
  /\ fatal = "none"
  /\ alloc.pc = "idle"
  /\ Cardinality(LiveStores) < MaxLive
  /\ shared => \E n \in NodeIds : ~node[n].used
  /\ IF initial_pages > kV8MaxWasmMemoryPages
          /\ maximum_pages > kV8MaxWasmMemoryPages
       THEN /\ last' = Returned("AllocateWasmMemory", 0, initial_pages, FALSE)
            /\ UNCHANGED alloc
       ELSE /\ alloc' = [pc |-> "phase1", initial_pages |-> initial_pages,
                         maximum_pages |-> maximum_pages,
                         req_maximum |-> maximum_pages, shared |-> shared,
                         run |-> 1, i |-> 0, did_retry |-> FALSE,
                         allocation_base |-> nullptr, status |-> "none",
                         old |-> 0, requests |-> 0]
            /\ last' = NoCall
  /\ UNCHANGED <<build, walk, dtor, reserved_address_space_, underflow, store, pages, node,
                 map_, ext_held, fatal>>
  /\ UNCHANGED acctVars
  /\ UNCHANGED shareVars
  /\ UNCHANGED lockVars

\* Lines 349-359: the call; more pages than the engine allows returns empty.
AllocateWasmMemory(initial_pages, maximum_pages, shared) ==
  /\ fatal = "none"
  /\ alloc.pc = "idle"
  /\ Cardinality(LiveStores) < MaxLive
  /\ shared => \E n \in NodeIds : ~node[n].used
  /\ IF initial_pages > kV8MaxWasmMemoryPages
       THEN /\ last' = Returned("AllocateWasmMemory", 0, initial_pages, FALSE)
            /\ UNCHANGED alloc
       ELSE /\ alloc' = [pc |-> "phase1", initial_pages |-> initial_pages,
                         maximum_pages |-> maximum_pages,
                         req_maximum |-> maximum_pages, shared |-> shared,
                         run |-> 1, i |-> 0, did_retry |-> FALSE,
                         allocation_base |-> nullptr, status |-> "none",
                         old |-> 0, requests |-> 0]
            /\ last' = NoCall
  /\ UNCHANGED <<build, walk, dtor, reserved_address_space_, underflow, store, pages, node,
                 map_, ext_held, fatal>>
  /\ UNCHANGED acctVars
  /\ UNCHANGED shareVars
  /\ UNCHANGED lockVars

\* A failed attempt that ends the process when it was the last one.
FailedAttemptFatal(H) ==
  /\ IF alloc.i < 2
       THEN /\ SetHeap(H)
            /\ alloc' = [alloc EXCEPT !.i = @ + 1, !.did_retry = TRUE,
                                 !.requests = Notifications(alloc.i + 1)]
       ELSE /\ SetHeap([H EXCEPT !.fatal = "oom"])
            /\ UNCHANGED alloc
  /\ UNCHANGED last

\* A failed attempt of a phase: did_retry, the memory-pressure notification,
\* and either the next attempt or the end of the run.
FailedAttempt(H) ==
  /\ SetHeap(H)
  /\ IF alloc.i < 2
       THEN /\ alloc' = [alloc EXCEPT !.i = @ + 1, !.did_retry = TRUE,
                                 !.requests = Notifications(alloc.i + 1)]
            /\ UNCHANGED last
       ELSE /\ alloc' = AfterFailedRun(alloc)
            /\ last' = LastAfterFailedRun(alloc)

\* Lines 276-287: phase 1, reserve address space.  With the fuzzer flag set
\* the third failure is FATAL.
Phase1Attempt ==
  /\ fatal = "none"
  /\ alloc.pc = "phase1"
  /\ LET size == ReservationSize(arch, alloc.maximum_pages) IN
     IF CanReserve(arch, reserved_address_space_, size)
       THEN /\ reserved_address_space_' =
                 (reserved_address_space_ + size) % WordMod
            /\ alloc' = [alloc EXCEPT !.pc = "phase2", !.i = 0,
                                      !.requests = 0]
            /\ UNCHANGED <<store, pages, node, map_, underflow, fatal, last>>
       ELSE \E g \in Collectable :
              LET H == AfterPressure(Heap, g) IN
              IF alloc.i = 2 /\ FLAG_correctness_fuzzer_suppressions
                   /\ H.fatal = "none"
                THEN /\ SetHeap([H EXCEPT !.fatal = "fatal"])
                     /\ UNCHANGED <<alloc, last>>
                ELSE FailedAttempt(H)
  /\ UNCHANGED <<build, walk, dtor, ext_held>>
  /\ UNCHANGED acctVars
  /\ UNCHANGED shareVars
  /\ UNCHANGED lockVars

\* Where AllocatePages (lines 293-297) may place the region: at a free base,
\* or, for the region CopyWasmMemory adds to the ones callers keep, past them.
FreeSlotBasesFor(al, pg) ==
  FreeSlotBases(pg) \cup
    (IF al.old # 0 /\ \A r \in pg : r[1] # SlotBase(MaxLive + 1)
       THEN {SlotBase(MaxLive + 1)} ELSE {})

\* Lines 292-304: phase 2, reserve inaccessible pages; when the last attempt
\* fails the reservation of phase 1 is released.
Phase2Attempt ==
  /\ fatal = "none"
  /\ alloc.pc = "phase2"
  /\ LET size == ReservationSize(arch, alloc.maximum_pages) IN
     \/ \E base \in FreeSlotBasesFor(alloc, pages) :
          /\ pages' = pages \cup {<<base, size>>}
          /\ alloc' = [alloc EXCEPT !.pc = "phase3", !.i = 0,
                                    !.requests = 0,
                                    !.allocation_base = base]
          /\ UNCHANGED <<reserved_address_space_, store, node, map_,
                         underflow, fatal, last>>
     \/ \E g \in Collectable :
          LET H == AfterPressure(Heap, g) IN
          FailedAttempt(IF alloc.i < 2 \/ H.fatal # "none"
                          THEN H ELSE HeapRelease(H, size))
  /\ UNCHANGED <<build, walk, dtor, ext_held>>
  /\ UNCHANGED acctVars
  /\ UNCHANGED shareVars
  /\ UNCHANGED lockVars

\* A managed store that carries the allocator when it is not shared.
NewWasmStoreWithAllocator(a, al, anchor) ==
  [live |-> TRUE,
   buffer_start_ |-> BufferStart(a, al.allocation_base),
   byte_length_ |-> al.initial_pages * kWasmPageSize,
   byte_capacity_ |-> ByteCapacity(a, al.maximum_pages),
   is_shared_ |-> al.shared, is_wasm_memory_ |-> TRUE,
   free_on_destruct_ |-> TRUE, has_guard_regions_ |-> kUseGuardRegions(a),
   globally_registered_ |-> FALSE,
   data |-> IF al.shared THEN [kind |-> "list", ptr |-> anchor]
                         ELSE [kind |-> "allocator", ptr |-> 1],
   req_maximum |-> al.req_maximum]

\* Lines 330-344: the new BackingStore, with an anchor if it is shared.
NewWasmStore(a, al, anchor) ==
  [live |-> TRUE,
   buffer_start_ |-> BufferStart(a, al.allocation_base),
   byte_length_ |-> al.initial_pages * kWasmPageSize,
   byte_capacity_ |-> ByteCapacity(a, al.maximum_pages),
   is_shared_ |-> al.shared, is_wasm_memory_ |-> TRUE,
   free_on_destruct_ |-> TRUE, has_guard_regions_ |-> kUseGuardRegions(a),
   globally_registered_ |-> FALSE,
   data |-> IF al.shared THEN [kind |-> "list", ptr |-> anchor] ELSE NoData,
   req_maximum |-> al.req_maximum]

\* Lines 387-388: memcpy(new->buffer_start(), old->buffer_start(), old_size)
\* writes old_size bytes at the start of the new store.  Only byte_length_
\* bytes of it are accessible: with guard regions the pages after them are
\* reserved without access and the write faults, without guard regions the
\* reservation ends there and the write is undefined behaviour.
MemcpyOutcomes(dst, n) ==
  IF n <= dst.byte_length_ THEN {"none"}
  ELSE IF dst.has_guard_regions_ THEN {"segv"}
  ELSE {"none", "segv"}

\* Lines 314-344: phase 3, commit the initial pages; failing three times is
\* fatal, succeeding creates the store.  Lines 381-384: CopyWasmMemory
\* destroys the new store and returns empty if its guard regions differ from
\* those of the old one.
Phase3Attempt ==
  /\ fatal = "none"
  /\ alloc.pc = "phase3"
  /\ \E granted \in BOOLEAN :
       IF alloc.initial_pages * kWasmPageSize = 0 \/ granted
         THEN LET s == NewStoreId(store)
                  made == NewWasmStore(arch, alloc, NewNodeId(node))
                  H == [Heap EXCEPT
                          !.store[s] = made,
                          !.node = IF alloc.shared
                                     THEN [@ EXCEPT ![NewNodeId(node)] =
                                             [FreedNode EXCEPT !.used = TRUE]]
                                     ELSE @]
                  status == IF alloc.did_retry THEN "kSuccessAfterRetry"
                                               ELSE "kSuccess"
              IN
              /\ alloc' = IdleAlloc
              /\ IF alloc.old # 0 /\ made.has_guard_regions_
                                       # store[alloc.old].has_guard_regions_
                   THEN /\ SetHeap(Destruct(H, s))
                        /\ last' = [Returned(CallName(alloc), 0,
                                             alloc.initial_pages, FALSE)
                                       EXCEPT !.status = status,
                                              !.requests = alloc.requests]
                   ELSE LET old_size == IF alloc.old # 0
                                           THEN store[alloc.old].byte_length_
                                           ELSE 0
                        IN
                        /\ \E out \in MemcpyOutcomes(made, old_size) :
                             SetHeap([H EXCEPT !.fatal = out])
                        /\ last' = [Returned(CallName(alloc), s,
                                             alloc.initial_pages, TRUE)
                                       EXCEPT !.status = status,
                                              !.requests = alloc.requests,
                                              !.copied = old_size]
         ELSE \E g \in Collectable :
                LET H == AfterPressure(Heap, g) IN
                IF alloc.i < 2
                  THEN FailedAttempt(H)
                  ELSE /\ SetHeap([H EXCEPT !.fatal = "oom"])
                       /\ UNCHANGED <<alloc, last>>
  /\ UNCHANGED <<build, walk, dtor, ext_held>>
  /\ UNCHANGED acctVars
  /\ UNCHANGED shareVars
  /\ UNCHANGED lockVars

\* Lines 369-380: CopyWasmMemory(old, new_byte_length) allocates a memory of
\* new_byte_length / kWasmPageSize pages, initial and maximum alike, while it
\* holds `old`.  Line 372: DCHECK_GE(new_byte_length, old->byte_length()) is
\* compiled into debug builds only.
CopyWasmMemory(old, new_byte_length) ==
  /\ fatal = "none"
  /\ alloc.pc = "idle"
  /\ store[old].live
  /\ store[old].is_wasm_memory_
  /\ Cardinality(LiveStores) <= MaxLive
  /\ store[old].is_shared_ => \E n \in NodeIds : ~node[n].used
  /\ LET new_pages == new_byte_length \div kWasmPageSize IN
     IF DEBUG /\ new_byte_length < store[old].byte_length_
       THEN /\ fatal' = "check"
            /\ UNCHANGED <<alloc, last>>
       ELSE /\ UNCHANGED fatal
            /\ IF new_pages > kV8MaxWasmMemoryPages
                 THEN /\ last' = Returned("CopyWasmMemory", 0, new_pages,
                                          FALSE)
                      /\ UNCHANGED alloc
                 ELSE /\ alloc' = [pc |-> "phase1",
                                   initial_pages |-> new_pages,
                                   maximum_pages |-> new_pages,
                                   req_maximum |-> new_pages,
                                   shared |-> store[old].is_shared_,
                                   run |-> 1, i |-> 0, did_retry |-> FALSE,
                                   allocation_base |-> nullptr,
                                   status |-> "none",
                                   old |-> old, requests |-> 0]
                      /\ last' = NoCall
  /\ UNCHANGED <<build, walk, dtor, reserved_address_space_, underflow, store, pages, node,
                 map_, ext_held>>
  /\ UNCHANGED acctVars
  /\ UNCHANGED shareVars
  /\ UNCHANGED lockVars

\* A store from Allocate that would not free its memory.
AllocatedStoreNotOwning(buffer_start, byte_length, shared) ==
  [live |-> TRUE, buffer_start_ |-> buffer_start,
   byte_length_ |-> byte_length, byte_capacity_ |-> byte_length,
   is_shared_ |-> shared, is_wasm_memory_ |-> FALSE,
   free_on_destruct_ |-> FALSE, has_guard_regions_ |-> FALSE,
   globally_registered_ |-> FALSE,
   data |-> [kind |-> "allocator", ptr |-> 1], req_maximum |-> 0]

\* Lines 188-232: Allocate(byte_length) asks the embedder's allocator, which
\* may return null (granted = FALSE); a zero-length request skips it and
\* gets a store whose start is null.
AllocatedStore(buffer_start, byte_length, shared) ==
  [live |-> TRUE, buffer_start_ |-> buffer_start,
   byte_length_ |-> byte_length, byte_capacity_ |-> byte_length,
   is_shared_ |-> shared, is_wasm_memory_ |-> FALSE,
   free_on_destruct_ |-> TRUE, has_guard_regions_ |-> FALSE,
   globally_registered_ |-> FALSE,
   data |-> [kind |-> "allocator", ptr |-> 1], req_maximum |-> 0]

\* The address the embedder's allocator returns for the store in slot s.
AllocatorAddress(s) == GB + s

Allocate(byte_length, shared, granted) ==
  /\ fatal = "none"
  /\ alloc.pc = "idle"
  /\ Cardinality(LiveStores) < MaxLive
  /\ IF byte_length # 0 /\ ~granted
       THEN /\ last' = [Returned("Allocate", 0, byte_length, FALSE)
                          EXCEPT !.called = TRUE]
            /\ UNCHANGED store
       ELSE LET s == NewStoreId(store) IN
            /\ store' = [store EXCEPT ![s] =
                           AllocatedStore(IF byte_length = 0
                                            THEN nullptr
                                            ELSE AllocatorAddress(s),
                                          byte_length, shared)]
            /\ last' = [Returned("Allocate", s, byte_length, TRUE)
                          EXCEPT !.called = byte_length # 0,
                                 !.got = IF byte_length = 0
                                           THEN nullptr
                                           ELSE AllocatorAddress(s)]
  /\ UNCHANGED <<build, walk, dtor, reserved_address_space_, underflow, pages, node, map_,
                 alloc, ext_held, fatal>>
  /\ UNCHANGED acctVars
  /\ UNCHANGED shareVars
  /\ UNCHANGED lockVars

----------------------------------------------------------------------------
\* GrowWasmMemoryInPlace (lines 394-416) and the end of a store's life.

\* A grow that records the new length before it knows that the permissions
\* were changed.
GrowOutcomeLengthFirst(bs, new_byte_length, granted) ==
  IF new_byte_length <= bs.byte_length_
    THEN [ok |-> TRUE, length |-> bs.byte_length_, perm |-> FALSE,
          notified |-> FALSE, delta |-> 0]
  ELSE IF bs.byte_capacity_ < new_byte_length
    THEN [ok |-> FALSE, length |-> bs.byte_length_, perm |-> FALSE,
          notified |-> FALSE, delta |-> 0]
  ELSE [ok |-> granted, length |-> new_byte_length, perm |-> TRUE,
        notified |-> granted,
        delta |-> IF granted THEN new_byte_length - bs.byte_length_ ELSE 0]

\* Lines 398-415: the result, the new byte_length_, and what was called.
GrowOutcome(bs, new_byte_length, granted) ==
  IF new_byte_length <= bs.byte_length_
    THEN [ok |-> TRUE, length |-> bs.byte_length_, perm |-> FALSE,
          notified |-> FALSE, delta |-> 0]
  ELSE IF bs.byte_capacity_ < new_byte_length
    THEN [ok |-> FALSE, length |-> bs.byte_length_, perm |-> FALSE,
          notified |-> FALSE, delta |-> 0]
  ELSE IF ~granted
    THEN [ok |-> FALSE, length |-> bs.byte_length_, perm |-> TRUE,
          notified |-> FALSE, delta |-> 0]
  ELSE [ok |-> TRUE, length |-> new_byte_length, perm |-> TRUE,
        notified |-> TRUE, delta |-> new_byte_length - bs.byte_length_]

GrowWasmMemoryInPlace(s, new_pages) ==
  /\ fatal = "none"
  /\ alloc.pc = "idle"
  /\ store[s].live
  /\ store[s].is_wasm_memory_
  /\ \E granted \in BOOLEAN :
       LET r == GrowOutcome(store[s], new_pages * kWasmPageSize, granted) IN
       /\ store' = [store EXCEPT ![s].byte_length_ = r.length]
       /\ last' = [op |-> "GrowWasmMemoryInPlace", store |-> s,
                   arg |-> new_pages, ok |-> r.ok, perm |-> r.perm,
                   notified |-> r.notified, delta |-> r.delta]
  /\ UNCHANGED <<build, walk, dtor, reserved_address_space_, underflow, pages, node, map_,
                 alloc, ext_held, fatal>>
  /\ UNCHANGED acctVars
  /\ UNCHANGED shareVars
  /\ UNCHANGED lockVars

\* The last owning reference of a store is dropped.
DropStore(s) ==
  /\ fatal = "none"
  /\ alloc.pc = "idle"
  /\ store[s].live
  /\ SetHeap(Destruct(Heap, s))
  /\ LET freed == Destruct(Heap, s).freed IN
     last' = [Returned("~BackingStore", s, 0, TRUE)
                EXCEPT !.called = freed # {},
                       !.got = IF freed = {} THEN nullptr
                                             ELSE CHOOSE a \in freed : TRUE]
  /\ UNCHANGED <<build, walk, dtor, alloc, ext_held>>
  /\ UNCHANGED acctVars
  /\ UNCHANGED shareVars
  /\ UNCHANGED lockVars

\* Address space other users reserve through ReserveAddressSpace: all but
\* the room of one more store, or all of it.
ExternalSizes(a) ==
  {kAddressSpaceLimit(a) - ReservationSize(a, 10), kAddressSpaceLimit(a)}

ExternalReserve(n) ==
  /\ fatal = "none"
  /\ ext_held = 0
  /\ CanReserve(arch, reserved_address_space_, n)
  /\ reserved_address_space_' = (reserved_address_space_ + n) % WordMod
  /\ ext_held' = n
  /\ UNCHANGED <<build, walk, dtor, underflow, store, pages, node, map_, alloc, fatal, last>>
  /\ UNCHANGED acctVars
  /\ UNCHANGED shareVars
  /\ UNCHANGED lockVars

ExternalRelease ==
  /\ fatal = "none"
  /\ ext_held # 0
  /\ reserved_address_space_' = FetchSub(reserved_address_space_, ext_held)
  /\ underflow' = (underflow \/ ~(ext_held <= reserved_address_space_))
  /\ ext_held' = 0
  /\ UNCHANGED <<build, walk, dtor, store, pages, node, map_, alloc, fatal, last>>
  /\ UNCHANGED acctVars
  /\ UNCHANGED shareVars
  /\ UNCHANGED lockVars

StoreNext ==
  \/ \E i \in InitialChoices, m \in MaximumChoices, sh \in BOOLEAN :
       AllocateWasmMemory(i, m, sh)
  \/ Phase1Attempt
  \/ Phase2Attempt
  \/ Phase3Attempt
  \/ \E s \in StoreIds, n \in GrowChoices : GrowWasmMemoryInPlace(s, n)
  \/ \E s \in StoreIds : DropStore(s)
  \/ \E n \in ExternalSizes(arch) : ExternalReserve(n)
  \/ ExternalRelease

\* The builds with and without guard regions (mips64 differs from x64 only
\* in the ceiling, which SpecAcct covers).
StoreInit == Init /\ arch \in {"x64", "ia32"}

SpecStore == StoreInit /\ [][StoreNext]_vars

----------------------------------------------------------------------------
\* The registry's operations on stores that exist: wrapped allocations made
\* on the spot, and a Wasm store AllocateWasmMemory(1, 10, shared) made
\* before.

\* An address handed out by the embedder's allocator.
ExternalPointer == GB
WrapPointers == {nullptr, ExternalPointer}

\* isolate->array_buffer_allocator(), never null.
TheAllocator == [kind |-> "allocator", ptr |-> 1]

\* Lines 445-456.
WrappedStore(allocation_base, allocation_length, shared, free_on_destruct) ==
  [live |-> TRUE, buffer_start_ |-> allocation_base,
   byte_length_ |-> allocation_length, byte_capacity_ |-> allocation_length,
   is_shared_ |-> shared, is_wasm_memory_ |-> FALSE,
   free_on_destruct_ |-> free_on_destruct, has_guard_regions_ |-> FALSE,
   globally_registered_ |-> FALSE, data |-> TheAllocator, req_maximum |-> 0]

WrapAllocation(allocation_base, shared, free_on_destruct) ==
  /\ fatal = "none"
  /\ alloc.pc = "idle"
  /\ \E s \in StoreIds : ~store[s].live
  /\ LET s == NewStoreId(store)
         allocation_length == IF allocation_base = nullptr THEN 0 ELSE 1
     IN
     /\ store' = [store EXCEPT ![s] =
                    WrappedStore(allocation_base, allocation_length, shared,
                                 free_on_destruct)]
     /\ last' = Returned("WrapAllocation", s, allocation_base, TRUE)
  /\ UNCHANGED <<build, walk, dtor, reserved_address_space_, underflow, pages, node, map_,
                 alloc, ext_held, fatal>>
  /\ UNCHANGED acctVars
  /\ UNCHANGED shareVars
  /\ UNCHANGED lockVars

\* Register(backing_store); s = 0 passes an empty shared_ptr.
RegisterCall(s) ==
  /\ fatal = "none"
  /\ mutex_ = nullptr
  /\ s # 0 => store[s].live
  /\ SetHeap(Register(Heap, s))
  /\ last' = Returned("Register", s, 0, TRUE)
  /\ UNCHANGED <<build, walk, dtor, alloc, ext_held>>
  /\ UNCHANGED acctVars
  /\ UNCHANGED shareVars
  /\ UNCHANGED lockVars

UnregisterCall(s) ==
  /\ fatal = "none"
  /\ mutex_ = nullptr
  /\ store[s].live
  /\ SetHeap(Unregister(Heap, s))
  /\ last' = Returned("Unregister", s, 0, TRUE)
  /\ UNCHANGED <<build, walk, dtor, alloc, ext_held>>
  /\ UNCHANGED acctVars
  /\ UNCHANGED shareVars
  /\ UNCHANGED lockVars

\* The addresses a caller may look up: null, the external pointer and the
\* start of every store.
LookupAddresses ==
  WrapPointers \cup {store[s].buffer_start_ : s \in LiveStores}

\* Lines 522-534.  When the entry's store has lost its last owner, lock()
\* (line 530) returns an empty pointer: a build without DCHECKs returns it,
\* a build with DCHECKs reads backing_store->buffer_start() through it at
\* line 531.
LookupCall(buffer_start) ==
  /\ fatal = "none"
  /\ mutex_ = nullptr
  /\ LET expired == /\ buffer_start \in DOMAIN map_
                    /\ dtor[map_[buffer_start]] # "none"
         found == IF expired THEN 0 ELSE Lookup(map_, store, buffer_start)
     IN
     /\ last' = Returned("Lookup", found, buffer_start, found # 0)
     /\ IF expired /\ DEBUG
          THEN fatal' \in {"none", "segv"}
          ELSE fatal' = fatal
  /\ UNCHANGED <<build, walk, dtor, reserved_address_space_, underflow, store,
                 pages, node, map_, alloc, ext_held>>
  /\ UNCHANGED acctVars
  /\ UNCHANGED shareVars
  /\ UNCHANGED lockVars

\* The state AllocateWasmMemory(1, 10, shared) leaves behind when every
\* phase succeeds at once and the pages land at SlotBase(1).
PremadeAlloc(shared) ==
  [IdleAlloc EXCEPT !.initial_pages = 1, !.maximum_pages = 10,
                    !.req_maximum = 10, !.shared = shared,
                    !.allocation_base = SlotBase(1)]

PremadeInit(population) ==
  /\ FLAG_correctness_fuzzer_suppressions = FALSE
  /\ thr = [t \in Threads |-> IdleThread]
  /\ held = [t \in Threads |-> <<>>]
  /\ underflow = FALSE
  /\ map_ = <<>>
  /\ alloc = IdleAlloc
  /\ ext_held = 0
  /\ fatal = "none"
  /\ last = NoCall
  /\ NoViews
  /\ store = [s \in StoreIds |->
                IF s = 1 /\ population # "none"
                  THEN NewWasmStore(arch,
                                    PremadeAlloc(population = "shared"), 1)
                  ELSE FreedStore]
  /\ node = [n \in NodeIds |->
               IF n = 1 /\ population = "shared"
                 THEN [FreedNode EXCEPT !.used = TRUE]
                 ELSE FreedNode]
  /\ pages = IF population = "none"
               THEN {}
               ELSE {<<SlotBase(1), ReservationSize(arch, 10)>>}
  /\ reserved_address_space_ =
       IF population = "none" THEN 0 ELSE ReservationSize(arch, 10)

RegInit ==
  /\ arch \in {"x64", "ia32"}
  /\ DEBUG = FALSE
  /\ \E population \in {"none", "plain", "shared"} : PremadeInit(population)

RegNext ==
  \/ \E p \in WrapPointers, sh \in BOOLEAN, f \in BOOLEAN :
       WrapAllocation(p, sh, f)
  \/ \E s \in StoreIds \cup {0} : RegisterCall(s)
  \/ \E s \in StoreIds : UnregisterCall(s)
  \/ \E a \in LookupAddresses : LookupCall(a)
  \/ \E s \in StoreIds : DropStore(s)

SpecReg == RegInit /\ [][RegNext]_vars

----------------------------------------------------------------------------
\* Shared Wasm memories: attaching memory objects and broadcasting a grow.

\* The nodes reachable from n through next_, in list order.
RECURSIVE ListFrom(_, _, _)
ListFrom(nd, n, fuel) ==
  IF n = nullptr \/ fuel = 0
    THEN <<>>
    ELSE <<n>> \o ListFrom(nd, nd[n].next_, fuel - 1)

\* The attachment nodes of store s: its list after the anchor.
Attachments(st, nd, s) ==
  ListFrom(nd, nd[st[s].data.ptr].next_, MaxNodes)

SeqRange(q) == {q[i] : i \in 1..Len(q)}

\* Reading or writing the anchor node `list` (lines 544-553, 569-576): if the
\* node was deleted the access is a use after free, which faults or carries
\* on with a corrupted heap; the model follows the program no further.
AnchorAccess(nd, list) ==
  IF nd[list].used THEN {"none"} ELSE {"segv", "corrupt"}

\* An insertion that forgets the node that followed the anchor.
LinkAfterAnchorOnly(nd, list, entry) ==
  [nd EXCEPT ![list].next_ = entry, ![entry].prev_ = list]

\* Lines 568-577: link entry right after the anchor.
LinkAfterAnchor(nd, list, entry) ==
  LET next == nd[list].next_
      linked == IF next # nullptr
                  THEN [nd EXCEPT ![next].prev_ = entry, ![entry].next_ = next]
                  ELSE nd
  IN [linked EXCEPT ![list].next_ = entry, ![entry].prev_ = list]

\* The isolate makes a WasmMemoryObject over store s, whose buffer reports
\* the store's length, and attaches it (lines 418-425, 557-578): a weak
\* global handle and a new SharedWasmMemoryData, linked under the mutex.
AttachSharedWasmMemoryObject(isolate, s) ==
  /\ fatal = "none"
  /\ bcast[isolate].pc = "idle" /\ upd[isolate].pc = "idle"
  /\ mutex_ = nullptr
  /\ store[s].live /\ store[s].is_wasm_memory_ /\ store[s].is_shared_
  /\ store[s].data.kind = "list" /\ store[s].data.ptr # nullptr
  /\ \E v \in ViewIds : view[v].state = "none"
  /\ \E n \in NodeIds : ~node[n].used
  /\ LET v == CHOOSE w \in ViewIds :
                view[w].state = "none"
                /\ \A x \in ViewIds : view[x].state = "none" => w <= x
         entry == NewNodeId(node)
         made == [node EXCEPT ![entry] =
                    [used |-> TRUE, next_ |-> nullptr, prev_ |-> nullptr,
                     isolate_ |-> isolate, memory_object_ |-> v]]
     IN
     /\ view' = [view EXCEPT ![v] =
                   [state |-> "live", isolate |-> isolate, buffer_store |-> s,
                    byte_length |-> store[s].byte_length_]]
     /\ node' = LinkAfterAnchor(made, store[s].data.ptr, entry)
  /\ fatal' \in AnchorAccess(node, store[s].data.ptr)
  /\ UNCHANGED <<build, walk, dtor, reserved_address_space_, underflow, store, pages, map_,
                 alloc, ext_held, last, grow_requested, bcast>>
  /\ UNCHANGED acctVars
  /\ UNCHANGED lockVars

\* The collector finds a memory object unreachable; NopFinalizer destroys its
\* weak global handle.  The node that holds the handle stays in the list.
CollectMemoryObject(v) ==
  /\ fatal = "none"
  /\ view[v].state = "live"
  /\ view' = [view EXCEPT ![v].state = "dead"]
  /\ UNCHANGED <<build, walk, dtor, reserved_address_space_, underflow, grow_requested,
                 bcast>>
  /\ UNCHANGED storeVars
  /\ UNCHANGED acctVars
  /\ UNCHANGED lockVars

\* A walk that gathers the memory objects of the other isolates.
GathersOthers(entry, isolate) ==
  entry.isolate_ # isolate /\ entry.memory_object_ # nullptr

\* A walk that gathers every memory object, whoever owns it.
GathersAny(entry, isolate) ==
  entry.memory_object_ # nullptr

\* Line 594: the node's memory object is gathered.  A handle is null only
\* if it was never set: destroying the global handle leaves it non-null.
Gathers(entry, isolate) ==
  entry.isolate_ = isolate /\ entry.memory_object_ # nullptr

\* A critical section that is still open when the walk is over.
ScopeStaysLocked(holder) == holder

\* Line 601: the block of the MutexGuard ends and the mutex is released.
ScopeExit(holder) == nullptr

\* Lines 583-590: BroadcastSharedWasmMemoryGrow is called and takes the
\* mutex.
BroadcastLock(isolate, s, new_size) ==
  /\ fatal = "none"
  /\ bcast[isolate].pc = "idle" /\ upd[isolate].pc = "idle"
  /\ mutex_ = nullptr
  /\ store[s].live /\ store[s].is_wasm_memory_ /\ store[s].is_shared_
  /\ store[s].data.kind = "list" /\ store[s].data.ptr # nullptr
  /\ bcast' = [bcast EXCEPT ![isolate] =
                 [IdleBroadcast EXCEPT !.pc = "gather", !.store = s,
                                       !.new_size = new_size]]
  /\ mutex_' = isolate
  /\ UNCHANGED <<build, walk, dtor, reserved_address_space_, underflow, view,
                 grow_requested, upd>>
  /\ UNCHANGED storeVars
  /\ UNCHANGED acctVars

\* Lines 591-601: phase A, the walk under the mutex, and its release.
BroadcastGather(isolate) ==
  /\ fatal = "none"
  /\ bcast[isolate].pc = "gather"
  /\ LET s == bcast[isolate].store
         list == Attachments(store, node, s)
         mine == SelectSeq(list, LAMBDA n : Gathers(node[n], isolate))
         others == {node[n].isolate_ :
                      n \in {m \in SeqRange(list) : ~Gathers(node[m], isolate)}}
     IN
     /\ bcast' = [bcast EXCEPT ![isolate] =
                    [@ EXCEPT !.pc = "update",
                              !.memory_objects =
                                [i \in 1..Len(mine) |->
                                   node[mine[i]].memory_object_],
                              !.length_at_call = store[s].byte_length_]]
     /\ grow_requested' =
          [c \in Isolates |-> grow_requested[c] \/ c \in others]
  /\ mutex_' = ScopeExit(isolate)
  /\ UNCHANGED <<build, walk, dtor, reserved_address_space_, underflow, view, upd>>
  /\ UNCHANGED storeVars
  /\ UNCHANGED acctVars

\* new_buffer->Attach(backing_store); update_instances(new_buffer): the
\* memory object's buffer is now one over the store, of the store's length.
RebuiltView(vw, s, st) ==
  [vw EXCEPT !.buffer_store = s, !.byte_length = st[s].byte_length_]

\* Lines 607-612: one iteration of phase B, without the mutex.  A gathered
\* handle whose memory object was collected is dangling: the access either
\* crashes or goes unnoticed.
BroadcastUpdate(isolate) ==
  /\ fatal = "none"
  /\ bcast[isolate].pc = "update"
  /\ bcast[isolate].memory_objects # <<>>
  /\ LET v == Head(bcast[isolate].memory_objects) IN
     /\ bcast' = [bcast EXCEPT ![isolate].memory_objects = Tail(@)]
     /\ IF view[v].state = "live"
          THEN /\ view' = [view EXCEPT ![v] =
                             RebuiltView(@, bcast[isolate].store, store)]
               /\ UNCHANGED fatal
          ELSE /\ fatal' \in {"none", "segv"}
               /\ UNCHANGED view
  /\ UNCHANGED <<build, walk, dtor, reserved_address_space_, underflow, store, pages, node,
                 map_, alloc, ext_held, last, grow_requested>>
  /\ UNCHANGED acctVars
  /\ UNCHANGED lockVars

\* BroadcastSharedWasmMemoryGrow returns.
BroadcastReturn(isolate) ==
  /\ fatal = "none"
  /\ bcast[isolate].pc = "update"
  /\ bcast[isolate].memory_objects = <<>>
  /\ bcast' = [bcast EXCEPT ![isolate] = IdleBroadcast]
  /\ last' = Returned("BroadcastSharedWasmMemoryGrow", bcast[isolate].store,
                      bcast[isolate].new_size, TRUE)
  /\ UNCHANGED <<build, walk, dtor, reserved_address_space_, underflow, store, pages, node,
                 map_, alloc, ext_held, fatal, view, grow_requested>>
  /\ UNCHANGED acctVars
  /\ UNCHANGED lockVars

\* The new_size a caller may pass: the store's length, or another size.
BroadcastSizes(s) ==
  {store[s].byte_length_, 11 * kWasmPageSize}

\* The sizes a shared memory is grown to: one within reach, one beyond the
\* engine's maximum.
ShareGrowChoices == {5, kV8MaxWasmMemoryPages + 1}

ShareInit ==
  /\ arch = "x64"
  /\ DEBUG = FALSE
  /\ PremadeInit("shared")

ShareNext ==
  \/ \E c \in Isolates, s \in StoreIds : AttachSharedWasmMemoryObject(c, s)
  \/ \E v \in ViewIds : CollectMemoryObject(v)
  \/ \E s \in StoreIds, n \in ShareGrowChoices : GrowWasmMemoryInPlace(s, n)
  \/ \E c \in Isolates, s \in StoreIds :
       \E new_size \in BroadcastSizes(s) : BroadcastLock(c, s, new_size)
  \/ \E c \in Isolates : BroadcastGather(c)
  \/ \E c \in Isolates : BroadcastUpdate(c)
  \/ \E c \in Isolates : BroadcastReturn(c)

SpecShare == ShareInit /\ [][ShareNext]_vars

----------------------------------------------------------------------------
\* Purge: an isolate that goes away removes its attachment nodes.

\* Lines 122-127: unlink; the caller deletes the node (line 549).
UnlinkAndDelete(nd, n) ==
  LET next == nd[n].next_
      prev == nd[n].prev_
      a == IF prev # nullptr THEN [nd EXCEPT ![prev].next_ = next] ELSE nd
      b == IF next # nullptr THEN [a EXCEPT ![next].prev_ = prev] ELSE a
  IN [b EXCEPT ![n] = FreedNode]

\* Lines 544-553: the walk of one list, which starts at the anchor itself.
RECURSIVE PurgeList(_, _, _)
PurgeList(nd, list, isolate) ==
  IF list = nullptr
    THEN nd
  ELSE IF nd[list].isolate_ = isolate
    THEN PurgeList(UnlinkAndDelete(nd, list), nd[list].next_, isolate)
  ELSE PurgeList(nd, nd[list].next_, isolate)

\* Lines 539-554: the loop over the entries of the map.  An expired entry
\* and an entry of a store that is no Wasm memory are skipped; line 543
\* calls get_shared_wasm_memory_data(), whose CHECKs (lines 467, 469) want a
\* shared Wasm memory with an anchor.
RECURSIVE PurgeEntries(_, _, _)
PurgeEntries(H, keys, isolate) ==
  IF keys = {} \/ H.fatal # "none"
    THEN H
    ELSE LET key == CHOOSE k \in keys : \A j \in keys : k <= j
             bs == H.store[H.map_[key]]
             rest == keys \ {key}
         IN
         IF ~bs.live \/ ~bs.is_wasm_memory_
           THEN PurgeEntries(H, rest, isolate)
         ELSE IF ~bs.is_shared_ \/ bs.data.kind # "list"
                 \/ bs.data.ptr = nullptr
           THEN [H EXCEPT !.fatal = "check"]
         ELSE PurgeEntries(
                [H EXCEPT !.node = PurgeList(@, bs.data.ptr, isolate)],
                rest, isolate)

\* Lines 536-555.
Purge(H, isolate) == PurgeEntries(H, DOMAIN H.map_, isolate)

\* Line 543: the anchors that Purge reads, one per registered live shared
\* Wasm memory.
PurgedAnchors(H) ==
  {H.store[H.map_[key]].data.ptr :
     key \in {k \in DOMAIN H.map_ :
                LET bs == H.store[H.map_[k]] IN
                /\ bs.live /\ bs.is_wasm_memory_ /\ bs.is_shared_
                /\ bs.data.kind = "list" /\ bs.data.ptr # nullptr}}

\* RemoveSharedWasmMemoryObjects(isolate), lines 435-438, on the isolate's
\* own thread; Purge itself takes any Isolate*, the null pointer included.
PurgeCall(isolate) ==
  /\ fatal = "none"
  /\ isolate # nullptr =>
       bcast[isolate].pc = "idle" /\ upd[isolate].pc = "idle"
  /\ mutex_ = nullptr
  /\ LET freed == {a \in PurgedAnchors(Heap) : ~node[a].used} IN
     IF freed = {}
       THEN SetHeap(Purge(Heap, isolate))
       ELSE /\ fatal' \in UNION {AnchorAccess(node, a) : a \in freed}
            /\ UNCHANGED <<reserved_address_space_, underflow, store, pages,
                           node, map_>>
  /\ last' = Returned("Purge", 0, isolate, TRUE)
  /\ UNCHANGED <<build, walk, dtor, alloc, ext_held>>
  /\ UNCHANGED acctVars
  /\ UNCHANGED shareVars
  /\ UNCHANGED lockVars

PurgeInit ==
  /\ arch = "x64"
  /\ DEBUG = FALSE
  /\ PremadeInit("shared")

PurgeNext ==
  \/ \E s \in StoreIds : RegisterCall(s)
  \/ \E s \in StoreIds : UnregisterCall(s)
  \/ \E c \in Isolates, s \in StoreIds : AttachSharedWasmMemoryObject(c, s)
  \/ \E v \in ViewIds : CollectMemoryObject(v)
  \/ \E c \in Isolates : PurgeCall(c)

SpecPurge == PurgeInit /\ [][PurgeNext]_vars

----------------------------------------------------------------------------
\* UpdateSharedWasmMemoryObjects: an isolate that was asked to poll brings
\* its memory objects up to date.

\* Lines 632-639: the pairs gathered from one list, in list order.
GatheredFrom(nd, list, s, isolate) ==
  LET mine == SelectSeq(list, LAMBDA n : Gathers(nd[n], isolate))
  IN [i \in 1..Len(mine) |-> <<s, nd[mine[i]].memory_object_>>]

\* Lines 626-640: the loop over the entries of the map, which yields the
\* gathered pairs, or "check" when get_shared_wasm_memory_data() (line 631)
\* fails a CHECK of lines 467-469.
RECURSIVE GatherEntries(_, _, _, _, _)
GatherEntries(st, nd, m, keys, isolate) ==
  IF keys = {}
    THEN [fatal |-> "none", pairs |-> <<>>]
    ELSE LET key == CHOOSE k \in keys : \A j \in keys : k <= j
             s == m[key]
             rest == GatherEntries(st, nd, m, keys \ {key}, isolate)
         IN
         IF ~st[s].live \/ ~st[s].is_wasm_memory_
           THEN rest
         ELSE IF ~st[s].is_shared_ \/ st[s].data.kind # "list"
                 \/ st[s].data.ptr = nullptr
           THEN [fatal |-> "check", pairs |-> <<>>]
         ELSE [rest EXCEPT !.pairs =
                 GatheredFrom(nd, Attachments(st, nd, s), s, isolate) \o @]

\* The byte_length() of every store; a call keeps those it started with, to
\* tell afterwards whether a store grew while it ran.
ByteLengths(st) == [s \in StoreIds |-> st[s].byte_length_]

\* Lines 617-625: UpdateSharedWasmMemoryObjects is called and takes the
\* mutex.
UpdateLock(isolate) ==
  /\ fatal = "none"
  /\ bcast[isolate].pc = "idle" /\ upd[isolate].pc = "idle"
  /\ mutex_ = nullptr
  /\ upd' = [upd EXCEPT ![isolate].pc = "gather",
                        ![isolate].seen = ByteLengths(store)]
  /\ mutex_' = isolate
  /\ UNCHANGED <<build, walk, dtor, reserved_address_space_, underflow>>
  /\ UNCHANGED storeVars
  /\ UNCHANGED acctVars
  /\ UNCHANGED shareVars

\* Lines 626-641: phase A under the mutex, and its release.
UpdateGather(isolate) ==
  /\ fatal = "none"
  /\ upd[isolate].pc = "gather"
  /\ LET got == GatherEntries(store, node, map_, DOMAIN map_, isolate) IN
     /\ fatal' = got.fatal
     /\ upd' = [upd EXCEPT ![isolate] =
                  [pc |-> "update",
                   backing_stores |->
                     [i \in 1..Len(got.pairs) |-> got.pairs[i][1]],
                   memory_objects |->
                     [i \in 1..Len(got.pairs) |-> got.pairs[i][2]],
                   seen |-> upd[isolate].seen]]
  /\ mutex_' = ScopeExit(isolate)
  /\ UNCHANGED <<build, walk, dtor, reserved_address_space_, underflow, store, pages, node,
                 map_, alloc, ext_held, last>>
  /\ UNCHANGED acctVars
  /\ UNCHANGED shareVars

\* Lines 647-657: one iteration of phase B, without the mutex.  The buffer
\* is replaced only when its length differs from the store's.
UpdateStep(isolate) ==
  /\ fatal = "none"
  /\ upd[isolate].pc = "update"
  /\ upd[isolate].memory_objects # <<>>
  /\ LET v == Head(upd[isolate].memory_objects)
         s == Head(upd[isolate].backing_stores)
     IN
     /\ upd' = [upd EXCEPT ![isolate].memory_objects = Tail(@),
                           ![isolate].backing_stores = Tail(@)]
     /\ IF view[v].state = "live"
          THEN /\ view' = [view EXCEPT ![v] =
                             IF @.byte_length # store[s].byte_length_
                               THEN RebuiltView(@, s, store)
                               ELSE @]
               /\ UNCHANGED fatal
          ELSE /\ fatal' \in {"none", "segv"}
               /\ UNCHANGED view
  /\ UNCHANGED <<build, walk, dtor, reserved_address_space_, underflow, store, pages, node,
                 map_, alloc, ext_held, last, grow_requested, bcast, mutex_>>
  /\ UNCHANGED acctVars

\* UpdateSharedWasmMemoryObjects returns.
UpdateReturn(isolate) ==
  /\ fatal = "none"
  /\ upd[isolate].pc = "update"
  /\ upd[isolate].memory_objects = <<>>
  /\ upd' = [upd EXCEPT ![isolate] = IdleUpdate]
  /\ last' = Returned("UpdateSharedWasmMemoryObjects", 0, isolate, TRUE)
  /\ UNCHANGED <<build, walk, dtor, reserved_address_space_, underflow, store, pages, node,
                 map_, alloc, ext_held, fatal, mutex_>>
  /\ UNCHANGED acctVars
  /\ UNCHANGED shareVars

\* Broadcast and UpdateSharedWasmMemoryObjects side by side on a shared
\* memory that may be registered.
LockInit ==
  /\ arch = "x64"
  /\ DEBUG = FALSE
  /\ PremadeInit("shared")

LockNext ==
  \/ \E s \in StoreIds : RegisterCall(s)
  \/ \E c \in Isolates, s \in StoreIds : AttachSharedWasmMemoryObject(c, s)
  \/ \E s \in StoreIds, n \in ShareGrowChoices : GrowWasmMemoryInPlace(s, n)
  \/ \E c \in Isolates, s \in StoreIds :
       BroadcastLock(c, s, store[s].byte_length_)
  \/ \E c \in Isolates : BroadcastGather(c)
  \/ \E c \in Isolates : BroadcastUpdate(c)
  \/ \E c \in Isolates : BroadcastReturn(c)
  \/ \E c \in Isolates : UpdateLock(c)
  \/ \E c \in Isolates : UpdateGather(c)
  \/ \E c \in Isolates : UpdateStep(c)
  \/ \E c \in Isolates : UpdateReturn(c)

SpecLock == LockInit /\ [][LockNext]_vars

----------------------------------------------------------------------------
\* Claims about the accounting counter, checked under SpecAcct.

SumHeld == LET RECURSIVE Sum(_)
               Sum(n) == IF n = 0 THEN 0 ELSE SumSeq(held[n]) + Sum(n - 1)
           IN Sum(NThreads)

\* C2: under any interleaving of ReserveAddressSpace and ReleaseReservation
\* by several threads, each releasing only what it reserved, the counter is
\* never above kAddressSpaceLimit and never wraps below zero.
C2_CounterWithinLimit ==
  /\ reserved_address_space_ >= 0
  /\ reserved_address_space_ <= kAddressSpaceLimit(arch)
  /\ ~underflow

\* The counter stands at the ceiling, filled by one thread, while another
\* thread is at its compare-and-swap with the count it loaded before: a swap
\* that succeeded now would take the counter past the ceiling.
C2_Witness ==
  /\ reserved_address_space_ = kAddressSpaceLimit(arch)
  /\ \E t, u \in Threads :
       /\ t # u
       /\ thr[t].ret = "reserve_true"
       /\ held[t] # <<>>
       /\ thr[u].pc = "cas"
       /\ thr[u].old_count # reserved_address_space_

\* C3: ReserveAddressSpace(n) returns false exactly when the counter it
\* loaded plus n exceeds the ceiling (computed without wrapping); returning
\* false leaves the counter unchanged and returning true adds exactly n.
C3_ReserveExact ==
  [][\A t \in Threads :
       /\ (thr[t].pc = "load" /\ thr'[t].pc # "load") =>
            /\ (thr'[t].ret = "reserve_false") <=>
                 (reserved_address_space_ + thr[t].num_bytes
                    > kAddressSpaceLimit(arch))
            /\ (thr'[t].pc = "cas") <=>
                 (reserved_address_space_ + thr[t].num_bytes
                    <= kAddressSpaceLimit(arch))
            /\ reserved_address_space_' = reserved_address_space_
       /\ (thr[t].pc = "cas" /\ thr'[t].ret = "reserve_true") =>
            reserved_address_space_' =
              reserved_address_space_ + thr[t].num_bytes
       /\ (reserved_address_space_ = 0 /\ thr[t].pc = "load"
           /\ thr[t].num_bytes <= kAddressSpaceLimit(arch)) =>
            thr'[t].pc # "idle"]_vars

\* One thread was refused the largest 64-bit amount on a non-empty counter
\* and another was granted its amount.
C3_Witness ==
  \E t, u \in Threads :
    /\ thr[t].ret = "reserve_false"
    /\ thr[t].num_bytes = WordMod - 1
    /\ thr[t].old_count > 0
    /\ thr[u].ret = "reserve_true"

\* C4: the counter always equals the sum of what the threads hold, so a
\* successful reserve of n followed by a release of n puts the counter back
\* where it was, plus the net contribution of the other threads.
C4_ReserveReleaseRestores ==
  reserved_address_space_ = SumHeld

\* A thread has reserved and released while the other one holds an amount.
C4_Witness ==
  \E t, u \in Threads :
    /\ t # u
    /\ thr[t].ret = "released"
    /\ held[t] = <<>>
    /\ Len(held[u]) = MaxHeld
    /\ reserved_address_space_ = SumSeq(held[u])

----------------------------------------------------------------------------
\* Claims about allocation and growth, checked under SpecStore.

WasmStores == {s \in StoreIds : store[s].live /\ store[s].is_wasm_memory_}

\* A step in which GrowWasmMemoryInPlace ran and returned.
GrowStep ==
  /\ last'.op = "GrowWasmMemoryInPlace"
  /\ alloc.pc = "idle" /\ alloc'.pc = "idle"
  /\ last' # last \/ store' # store

\* C1: every managed store has byte_length_ <= byte_capacity_, right after
\* AllocateWasmMemory created it (whatever initial_pages and maximum_pages
\* the call accepted, guarded or not) and after every successful
\* GrowWasmMemoryInPlace.
C1_LengthWithinCapacity ==
  \A s \in WasmStores : store[s].byte_length_ <= store[s].byte_capacity_

\* C5: GrowWasmMemoryInPlace(new_length) with new_length <= length returns
\* true without a permission change, a notification or a change of length;
\* with new_length > capacity it returns false and leaves length unchanged.
C5_GrowNoOpOrRefused ==
  [][GrowStep =>
       LET s == last'.store
           new_byte_length == last'.arg * kWasmPageSize
       IN
       /\ (new_byte_length <= store[s].byte_length_) =>
            /\ last'.ok /\ ~last'.perm /\ ~last'.notified
            /\ store' = store
       /\ (new_byte_length > store[s].byte_capacity_) =>
            /\ ~last'.ok
            /\ store' = store]_vars

\* The store of the scenario: not shared, requested with maximum = 10 pages,
\* and still one page long.
IsScenarioStore(s) ==
  /\ ~store[s].is_shared_
  /\ store[s].req_maximum = 10
  /\ store[s].byte_length_ = 1 * kWasmPageSize

C7_GuardedRegionEnvelope ==
  \A s \in WasmStores :
    store[s].has_guard_regions_ =>
      LET start == store[s].buffer_start_
          region == GetGuardedRegion(start, store[s].byte_length_)
      IN
      /\ region.begin = start - kNegativeGuardSize
      /\ region.size = 10 * GB
      /\ \A n \in GrowChoices \cup InitialChoices :
           GetGuardedRegion(start, n * kWasmPageSize) = region
      /\ <<region.begin, region.size>> \in pages

\* A guarded store that was grown in place after its creation.
C7_Witness ==
  \E s \in WasmStores :
    /\ store[s].has_guard_regions_
    /\ store[s].byte_length_ = 5 * kWasmPageSize
    /\ last.op = "GrowWasmMemoryInPlace" /\ last.ok

----------------------------------------------------------------------------
\* Claims about Register, Unregister and Lookup, checked under SpecReg.

\* A step in which the named registry call on store s ran.
CallStep(op, s) == last'.op = op /\ last'.store = s

\* C8: once Register(store) has returned, and until the store is
\* unregistered or destructed, Lookup on its start address returns that
\* store; once Unregister(store) has returned for a registered store, Lookup
\* on its start address returns the empty result (and never that store).
C8_RegisterLookupUnregister ==
  /\ [](\A s \in LiveStores :
          store[s].globally_registered_ =>
            Lookup(map_, store, store[s].buffer_start_) = s)
  /\ [][\A s \in StoreIds :
          /\ (CallStep("Register", s) /\ fatal' = "none") =>
               Lookup(map_', store', store[s].buffer_start_) = s
          /\ (CallStep("Unregister", s) /\ store[s].globally_registered_) =>
               Lookup(map_', store', store[s].buffer_start_) = 0
          /\ CallStep("Unregister", s) =>
               Lookup(map_', store', store[s].buffer_start_) # s
          /\ (last'.op = "Lookup" /\ last'.store = s) =>
               /\ store[s].globally_registered_
               /\ store[s].buffer_start_ = last'.arg]_vars

\* A Lookup returned the registered store although a second, unregistered
\* store has the same start address.
C8_Witness ==
  /\ last.op = "Lookup" /\ last.ok
  /\ \E s, r \in LiveStores :
       /\ s # r
       /\ last.store = s
       /\ store[s].globally_registered_
       /\ store[r].buffer_start_ = store[s].buffer_start_
       /\ ~store[r].globally_registered_

\* C9: Register of a registered store changes neither the map nor the
\* store, and Unregister of a store that is not registered changes neither,
\* so it does not erase the entry another store has under the same start.
C9_RegisterUnregisterIdempotent ==
  [][\A s \in StoreIds :
       /\ (CallStep("Register", s) /\ store[s].globally_registered_) =>
            map_' = map_ /\ store' = store /\ fatal' = "none"
       /\ (CallStep("Unregister", s) /\ ~store[s].globally_registered_) =>
            map_' = map_ /\ store' = store /\ fatal' = "none"]_vars

\* Unregister ran on an unregistered store whose start address is the key
\* of another, registered store.
C9_Witness ==
  /\ last.op = "Unregister"
  /\ \E s, r \in LiveStores :
       /\ s # r
       /\ last.store = s
       /\ ~store[s].globally_registered_
       /\ store[r].globally_registered_
       /\ store[r].buffer_start_ = store[s].buffer_start_
       /\ Lookup(map_, store, store[s].buffer_start_) = r

----------------------------------------------------------------------------
\* Claims about broadcasting a grow of a shared memory.

\* The live memory objects on store s that isolate c owns.
LiveAttachments(st, nd, vw, s, c) ==
  {nd[n].memory_object_ :
     n \in {m \in SeqRange(Attachments(st, nd, s)) :
              /\ nd[m].isolate_ = c
              /\ vw[nd[m].memory_object_].state = "live"}}

BroadcastReturns(c) == bcast[c].pc = "update" /\ bcast'[c].pc = "idle"

\* C10 as stated: when BroadcastSharedWasmMemoryGrow(C, store, S) returns,
\* every live attachment on store owned by C has a view over store that
\* reports size S, whatever S the caller passed.
C10_BroadcastReportsNewSize ==
  [][\A c \in Isolates :
       BroadcastReturns(c) =>
         \A v \in LiveAttachments(store', node', view', bcast[c].store, c) :
           /\ view'[v].buffer_store = bcast[c].store
           /\ view'[v].byte_length = bcast[c].new_size]_vars

\* C10 (amended): when BroadcastSharedWasmMemoryGrow(C, store, S) returns,
\* every live attachment on store owned by C has a view over store that
\* reports a byte length the store had during the call: at least its length
\* when the call gathered the attachments and at most its length now.  S
\* plays no part.
C10_BroadcastReportsStoreLength ==
  [][\A c \in Isolates :
       BroadcastReturns(c) =>
         \A v \in LiveAttachments(store', node', view', bcast[c].store, c) :
           /\ view'[v].buffer_store = bcast[c].store
           /\ bcast[c].length_at_call <= view'[v].byte_length
           /\ view'[v].byte_length <= store'[bcast[c].store].byte_length_]_vars

\* A broadcast with S = 11 pages has returned on a store of 5 pages: the
\* view of isolate 1, made when the store had 1 page, reports 5 pages, and
\* the view of isolate 2 still reports 1 page.
C10_Witness ==
  /\ last.op = "BroadcastSharedWasmMemoryGrow"
  /\ last.arg = 11 * kWasmPageSize
  /\ \A c \in Isolates : bcast[c].pc = "idle"
  /\ store[last.store].live
  /\ store[last.store].byte_length_ = 5 * kWasmPageSize
  /\ view[1] = [state |-> "live", isolate |-> 1, buffer_store |-> last.store,
                byte_length |-> 5 * kWasmPageSize]
  /\ view[2] = [state |-> "live", isolate |-> 2, buffer_store |-> last.store,
                byte_length |-> kWasmPageSize]
  /\ grow_requested[2] /\ ~grow_requested[1]

\* The isolate's broadcast gathers: phase A of its call runs.
BroadcastGathers(c) == bcast[c].pc = "gather" /\ bcast'[c].pc = "update"

\* The isolate's broadcast takes a step of phase B or returns.
BroadcastProceeds(c) == bcast[c].pc = "update" /\ bcast'[c] # bcast[c]

\* The isolates that own an attachment node of store s.
AttachmentOwners(st, nd, s) ==
  {nd[n].isolate_ : n \in SeqRange(Attachments(st, nd, s))}

\* C11: a broadcast from isolate A changes no attachment node and no view
\* of another isolate; its gathering requests a grow poll on every other
\* isolate that owns an attachment of the store, and on no other isolate; it
\* never requests one on A.
C11_BroadcastLeavesOthers ==
  [][\A c \in Isolates :
       /\ BroadcastGathers(c) =>
            /\ node' = node /\ view' = view
            /\ grow_requested'[c] = grow_requested[c]
            /\ \A d \in Isolates \ {c} :
                 grow_requested'[d] =
                   (grow_requested[d]
                    \/ d \in AttachmentOwners(store, node, bcast'[c].store))
       /\ BroadcastProceeds(c) =>
            /\ node' = node
            /\ grow_requested' = grow_requested
            /\ \A v \in ViewIds :
                 view[v].isolate # c => view'[v] = view[v]]_vars

\* Isolate A has rebuilt its view of a grown store and is about to return;
\* isolate B's view still reports the old length and only B was asked to
\* poll.
C11_Witness ==
  \E a, b \in Isolates, v, w \in ViewIds :
    /\ a # b
    /\ bcast[a].pc = "update" /\ bcast[a].memory_objects = <<>>
    /\ grow_requested[b] /\ ~grow_requested[a]
    /\ view[v].state = "live" /\ view[v].isolate = a
    /\ view[v].byte_length = store[bcast[a].store].byte_length_
    /\ view[w].state = "live" /\ view[w].isolate = b
    /\ view[w].byte_length < store[bcast[a].store].byte_length_

----------------------------------------------------------------------------
\* Claims about Purge, checked under SpecPurge.

SharedWasmStores(st) ==
  {s \in StoreIds : st[s].live /\ st[s].is_wasm_memory_ /\ st[s].is_shared_}

\* The attachment nodes of s that isolate c does not own, in list order.
ForeignAttachments(st, nd, s, c) ==
  SelectSeq(Attachments(st, nd, s), LAMBDA n : nd[n].isolate_ # c)

PurgeStep(c) == last'.op = "Purge" /\ last'.arg = c /\ bcast' = bcast
                /\ view' = view /\ store' = store /\ fatal' = "none"

\* C12: after Purge(C) returns, no live shared Wasm store, registered or
\* not, has an attachment node of C, and the nodes of the other isolates are
\* still linked in the same order.
C12_PurgeRemovesOwned ==
  [][\A c \in Isolates :
       PurgeStep(c) =>
         \A s \in SharedWasmStores(store) :
           /\ \A n \in SeqRange(Attachments(store', node', s)) :
                node'[n].isolate_ # c
           /\ ForeignAttachments(store', node', s, c)
                = ForeignAttachments(store, node, s, c)]_vars

----------------------------------------------------------------------------
\* Claims about the registry mutex, checked under SpecLock.

\* A step of phase B of the isolate's Broadcast or Update call: a new shared
\* array buffer is made, attached and installed, which may start a
\* collection.
CollectionMayStart(c) ==
  \/ /\ bcast[c].pc = "update"
     /\ bcast'[c].memory_objects # bcast[c].memory_objects
  \/ /\ upd[c].pc = "update"
     /\ upd'[c].memory_objects # upd[c].memory_objects

\* C13: in Broadcast and in UpdateSharedWasmMemoryObjects the steps that can
\* start a collection run only while the calling thread does not hold the
\* registry mutex; the thread holds it only during its gathering.
C13_NoCollectionUnderMutex ==
  /\ [](\A c \in Isolates :
          mutex_ = c => (bcast[c].pc = "gather" \/ upd[c].pc = "gather"))
  /\ [][\A c \in Isolates :
          CollectionMayStart(c) => (mutex_ # c /\ mutex_' # c)]_vars

\* Isolate c is through phase B of an update that replaced its stale buffer
\* while the other isolate holds the mutex for its own gathering.
C13_Witness ==
  \E c, d \in Isolates, v \in ViewIds :
    /\ c # d
    /\ mutex_ = d /\ bcast[d].pc = "gather"
    /\ upd[c].pc = "update" /\ upd[c].memory_objects = <<>>
    /\ view[v].state = "live" /\ view[v].isolate = c
    /\ view[v].byte_length = 5 * kWasmPageSize
    /\ grow_requested[c]

\* C14: every memory object gathered in phase A of Broadcast or Update is
\* live and stays live until phase B is done with it: an object collected
\* before the call is never gathered, and none is collected while it waits
\* in the gathered vector.
C14_GatheredViewsStayLive ==
  \A c \in Isolates :
    /\ bcast[c].pc = "update" =>
         \A v \in SeqRange(bcast[c].memory_objects) : view[v].state = "live"
    /\ upd[c].pc = "update" =>
         \A v \in SeqRange(upd[c].memory_objects) : view[v].state = "live"

----------------------------------------------------------------------------
\* AllocateWasmMemory with the correctness-fuzzer flag either way, next to
\* other users of the address space and the collector.

AllocInit ==
  /\ arch \in {"x64", "ia32"}
  /\ FLAG_correctness_fuzzer_suppressions \in BOOLEAN
  /\ DEBUG = FALSE
  /\ reserved_address_space_ = 0
  /\ thr = [t \in Threads |-> IdleThread]
  /\ held = [t \in Threads |-> <<>>]
  /\ underflow = FALSE
  /\ store = [s \in StoreIds |-> FreedStore]
  /\ pages = {}
  /\ node = [n \in NodeIds |-> FreedNode]
  /\ map_ = <<>>
  /\ alloc = IdleAlloc
  /\ ext_held = 0
  /\ fatal = "none"
  /\ last = NoCall
  /\ NoViews

\* The lengths CopyWasmMemory is asked for: more than the old length, and
\* more than the engine allows.
CopySizes ==
  {11 * kWasmPageSize, (kV8MaxWasmMemoryPages + 1) * kWasmPageSize}

\* Requests within the engine's limit, beyond it in the maximum, and beyond
\* it in the initial size.
AllocInitialChoices == {1, kV8MaxWasmMemoryPages + 1}
AllocMaximumChoices == {10, kV8MaxWasmMemoryPages + 1}

AllocNext ==
  \/ \E i \in AllocInitialChoices, m \in AllocMaximumChoices :
       AllocateWasmMemory(i, m, FALSE)
  \/ \E old \in StoreIds, n \in CopySizes : CopyWasmMemory(old, n)
  \/ \E n \in {0, 1}, granted \in BOOLEAN : Allocate(n, FALSE, granted)
  \/ Phase1Attempt
  \/ Phase2Attempt
  \/ Phase3Attempt
  \/ \E s \in StoreIds : DropStore(s)
  \/ \E n \in ExternalSizes(arch) : ExternalReserve(n)
  \/ ExternalRelease

SpecAlloc == AllocInit /\ [][AllocNext]_vars

\* The reservation a live Wasm store holds (lines 263-271, 170-171).
StoreReservation(bs) ==
  IF ~bs.is_wasm_memory_ \/ bs.buffer_start_ = nullptr THEN 0
  ELSE IF bs.has_guard_regions_ THEN kFullGuardSize
  ELSE bs.byte_capacity_

\* What the collector released in this step: the reservations of the stores
\* that were destroyed.
ReleasedByCollection ==
  SumSeq([k \in 1..MaxStores |->
            IF store[k].live /\ ~store'[k].live
              THEN StoreReservation(store[k]) ELSE 0])

\* A run of TryAllocateWasmMemory gives up in phase pc: its third attempt
\* has failed and it returns.
RunFailsIn(pc) ==
  /\ alloc.pc = pc
  /\ alloc.i = 2
  /\ alloc'.pc = "idle" \/ (alloc.run = 1 /\ alloc'.run = 2)

\* The status and the result a failed run leaves behind.
RunReturnedEmpty(status) ==
  IF alloc'.pc = "idle"
    THEN last'.op = CallName(alloc) /\ ~last'.ok /\ last'.store = 0
         /\ last'.status = status
    ELSE alloc'.status = status /\ alloc'.allocation_base = nullptr

\* The third failed attempt of phase 1.
Phase1Exhausted ==
  /\ fatal = "none"
  /\ alloc.pc = "phase1"
  /\ alloc.i = 2
  /\ ~CanReserve(arch, reserved_address_space_,
                 ReservationSize(arch, alloc.maximum_pages))
  /\ alloc' # alloc \/ fatal' # fatal

\* C15 as stated: when phase 1 fails on all attempts the result is empty
\* with status address-space-limit failure and the counter is what it was
\* (less what the collector released meanwhile); when phase 2 fails on all
\* attempts the phase-1 reservation is given back and the result is empty
\* with status other-failure.
C15_FailedAllocationReturnsEmpty ==
  [][/\ Phase1Exhausted =>
          /\ fatal' = "none"
          /\ RunReturnedEmpty("kAddressSpaceLimitReachedFailure")
          /\ reserved_address_space_' =
               reserved_address_space_ - ReleasedByCollection
     /\ (RunFailsIn("phase2") /\ fatal' = "none") =>
          /\ RunReturnedEmpty("kOtherFailure")
          /\ reserved_address_space_' =
               reserved_address_space_ - ReleasedByCollection
                 - ReservationSize(arch, alloc.maximum_pages)]_vars

\* C15 amended: the same, except that with the correctness-fuzzer flag set
\* the third failure of phase 1 terminates the process instead of returning;
\* in neither case does phase 1 leave a reservation behind.
C15_FailedAllocationReturnsEmptyUnlessFuzzing ==
  [][/\ (Phase1Exhausted /\ fatal' # "check") =>
          /\ reserved_address_space_' =
               reserved_address_space_ - ReleasedByCollection
          /\ IF FLAG_correctness_fuzzer_suppressions
               THEN fatal' = "fatal" /\ alloc' = alloc /\ last' = last
               ELSE /\ fatal' = "none"
                    /\ RunReturnedEmpty("kAddressSpaceLimitReachedFailure")
     /\ (RunFailsIn("phase2") /\ fatal' = "none") =>
          /\ RunReturnedEmpty("kOtherFailure")
          /\ reserved_address_space_' =
               reserved_address_space_ - ReleasedByCollection
                 - ReservationSize(arch, alloc.maximum_pages)]_vars

\* Phase 1 has failed on all attempts while other users held address
\* space: the call returned empty and the counter holds their share only.
C15_Witness ==
  /\ fatal = "none"
  /\ alloc.pc = "idle"
  /\ last.op = "AllocateWasmMemory"
  /\ last.status = "kAddressSpaceLimitReachedFailure"
  /\ ~last.ok
  /\ ext_held # 0
  /\ reserved_address_space_ = ext_held

\* The process terminates in this step.
Terminates == fatal = "none" /\ fatal' # "none"

\* An allocation entry point returns in this step.
AllocationReturns ==
  /\ last' # last
  /\ last'.op \in {"Allocate", "AllocateWasmMemory", "CopyWasmMemory"}

\* The call that returns hands out a new store or an empty result and
\* leaves the process running.
ReturnsStoreOrEmpty ==
  /\ fatal' = "none"
  /\ IF last'.ok
       THEN /\ last'.store # 0
            /\ ~store[last'.store].live
            /\ store'[last'.store].live
       ELSE /\ last'.store = 0
            /\ \A s \in StoreIds : store'[s].live => store[s].live

\* The third failed commit of phase 3 (lines 320-323).
Phase3Exhausted == alloc.pc = "phase3" /\ alloc.i = 2 /\ fatal' = "oom"

\* C16 as stated: an allocation operation terminates the process only when
\* the commit of phase 3 has failed on all attempts; every other failure is
\* returned as an empty result.
C16_OnlyCommitFailureTerminates ==
  [][/\ Terminates => Phase3Exhausted
     /\ AllocationReturns => ReturnsStoreOrEmpty]_vars

\* C16 amended: there is a second terminating path, the third failure of
\* phase 1 when the correctness-fuzzer flag is set; every other failure
\* (allocator returning null, phase 1 without the flag, phase 2, a failed
\* copy) is returned as an empty result.
C16_OnlyCommitOrFuzzerFailureTerminates ==
  [][/\ Terminates =>
          \/ Phase3Exhausted
          \/ /\ Phase1Exhausted
             /\ FLAG_correctness_fuzzer_suppressions
             /\ fatal' = "fatal"
     /\ AllocationReturns => ReturnsStoreOrEmpty
     /\ (Phase1Exhausted /\ ~FLAG_correctness_fuzzer_suppressions) =>
          fatal' = "none"
     /\ RunFailsIn("phase2") => fatal' = "none"]_vars

\* A copy has failed and returned empty while the old store lives on.
C16_Witness ==
  /\ fatal = "none"
  /\ last.op = "CopyWasmMemory"
  /\ ~last.ok
  /\ last.status = "kOtherFailure"
  /\ LiveStores # {}

\* The operations of the registry.
RegistryOps ==
  {"Register", "Unregister", "Lookup", "Purge",
   "UpdateSharedWasmMemoryObjects"}

\* C17: no call of a registry operation on validly created stores ends in
\* a failed check; registering a second live store with the start address of
\* a registered one is such a call.
C17_RegistryNeverAborts == ~(fatal # "none" /\ last.op \in RegistryOps)

\* C18: the map is keyed by start address, so it holds one entry per
\* address; a live store is flagged globally_registered exactly when the
\* entry under its start address refers to it; every entry refers to a live
\* store that starts at the entry's key and is flagged.
C18_RegistryMatchesFlags ==
  /\ \A s \in LiveStores :
       store[s].globally_registered_ <=>
         /\ store[s].buffer_start_ \in DOMAIN map_
         /\ map_[store[s].buffer_start_] = s
  /\ \A k \in DOMAIN map_ :
       /\ map_[k] \in LiveStores
       /\ store[map_[k]].buffer_start_ = k
       /\ store[map_[k]].globally_registered_

\* Two live stores start at one address and the entry under that address
\* refers to the one that was registered.
C18_Witness ==
  \E s \in LiveStores, r \in LiveStores :
    /\ s # r
    /\ store[s].buffer_start_ = store[r].buffer_start_
    /\ store[s].globally_registered_
    /\ ~store[r].globally_registered_
    /\ map_[store[s].buffer_start_] = s
    /\ last.op = "Unregister"
    /\ last.store = r

----------------------------------------------------------------------------
\* The end of a store's life in steps: the last owner lets go, which expires
\* the registry's weak pointer, and then ~BackingStore runs on that thread
\* while other threads use the registry.

\* The store has an owner: no destructor has started.
Owned(s) == store[s].live /\ dtor[s] = "none"

\* An array buffer of a live memory object holds a shared_ptr to the store.
HeldByView(s) ==
  \E v \in ViewIds : view[v].state = "live" /\ view[v].buffer_store = s

\* The last shared_ptr to the store goes away: the strong count is zero,
\* weak pointers are expired and the destructor is about to run.
ReleaseLastReference(s) ==
  /\ fatal = "none"
  /\ alloc.pc = "idle"
  /\ Owned(s)
  /\ ~HeldByView(s)
  /\ dtor' = [dtor EXCEPT ![s] = "unregister"]
  /\ last' = Returned("reset", s, 0, TRUE)
  /\ UNCHANGED <<build, walk, reserved_address_space_, underflow, store, pages,
                 node, map_, alloc, ext_held, fatal>>
  /\ UNCHANGED acctVars
  /\ UNCHANGED shareVars
  /\ UNCHANGED <<mutex_, upd>>

\* A destructor whose Unregister does not wait for the registry mutex.
DestructorUnregisterUnlocked(s) ==
  /\ fatal = "none"
  /\ dtor[s] = "unregister"
  /\ SetHeap(Unregister(Heap, s))
  /\ dtor' = [dtor EXCEPT ![s] = "free"]
  /\ UNCHANGED <<build, walk, alloc, ext_held, last>>
  /\ UNCHANGED acctVars
  /\ UNCHANGED shareVars
  /\ UNCHANGED <<mutex_, upd>>

\* Lines 138-141: Unregister under the registry mutex.
DestructorUnregister(s) ==
  /\ fatal = "none"
  /\ dtor[s] = "unregister"
  /\ store[s].globally_registered_ => mutex_ = nullptr
  /\ SetHeap(Unregister(Heap, s))
  /\ dtor' = [dtor EXCEPT ![s] = "free"]
  /\ UNCHANGED <<build, walk, alloc, ext_held, last>>
  /\ UNCHANGED acctVars
  /\ UNCHANGED shareVars
  /\ UNCHANGED <<mutex_, upd>>

\* Lines 143-181: the list, the pages, the reservation, the allocator's
\* memory; then the object is gone.
DestructorFree(s) ==
  /\ fatal = "none"
  /\ dtor[s] = "free"
  /\ LET H == Destruct(Heap, s) IN
     /\ SetHeap(H)
     /\ dtor' = IF H.fatal = "none" THEN [dtor EXCEPT ![s] = "none"] ELSE dtor
  /\ last' = Returned("~BackingStore", s, 0, TRUE)
  /\ UNCHANGED <<build, walk, alloc, ext_held>>
  /\ UNCHANGED acctVars
  /\ UNCHANGED shareVars
  /\ UNCHANGED <<mutex_, upd>>

DropInit ==
  /\ arch = "x64"
  /\ DEBUG \in BOOLEAN
  /\ \E population \in {"none", "shared"} : PremadeInit(population)

DropNext ==
  \/ \E p \in WrapPointers : WrapAllocation(p, FALSE, FALSE)
  \/ \E s \in StoreIds : Owned(s) /\ RegisterCall(s)
  \/ \E s \in StoreIds : Owned(s) /\ UnregisterCall(s)
  \/ \E a \in LookupAddresses : LookupCall(a)
  \/ \E c \in Isolates, s \in StoreIds :
       Owned(s) /\ AttachSharedWasmMemoryObject(c, s)
  \/ \E v \in ViewIds : CollectMemoryObject(v)
  \/ \E s \in StoreIds : ReleaseLastReference(s)
  \/ \E s \in StoreIds : DestructorUnregister(s)
  \/ \E s \in StoreIds : DestructorFree(s)

SpecDrop == DropInit /\ [][DropNext]_vars

\* A destructor that has started runs to its end unless the process stops.
SpecDropFair ==
  /\ SpecDrop
  /\ \A s \in StoreIds :
       WF_vars(DestructorUnregister(s)) /\ WF_vars(DestructorFree(s))

\* C19: a Lookup that runs while the last owner of a registered store lets
\* go returns a store that has an owner, or not-found, and never reads
\* through the pointer it got from an expired weak reference.
C19_LookupStrongOrNotFound ==
  /\ fatal # "segv"
  /\ (last.op = "Lookup" /\ last.ok) =>
       /\ Owned(last.store)
       /\ store[last.store].buffer_start_ = last.arg
  /\ (last.op = "Lookup" /\ ~last.ok) => last.store = 0

\* ~BackingStore of store s returns in this step.
DestructorEnds(s) == dtor[s] = "free" /\ dtor'[s] = "none"

\* What the destructor leaves of store s: no object, no entry that refers
\* to it, no node of its list, no pages, no reservation.
CleanedUp(s) ==
  /\ ~store'[s].live
  /\ \A k \in DOMAIN map_' : map_'[k] # s
  /\ store[s].is_shared_ =>
       \A n \in SeqRange(ListFrom(node, store[s].data.ptr, MaxNodes)) :
         ~node'[n].used
  /\ store[s].is_wasm_memory_ =>
       /\ \A r \in pages' :
            r[1] # GetGuardedRegion(store[s].buffer_start_,
                                    store[s].byte_length_).begin
       /\ reserved_address_space_' =
            reserved_address_space_ - StoreReservation(store[s])

\* C20: once the last owner of a store has let go, its destructor completes;
\* when it does, the registry holds no entry for the store, every node of its
\* attachment list, the anchor included, is freed and its region is released;
\* from the moment the destructor has unregistered, its start address is free
\* in the registry unless another store was registered there.
C20_DestructorCleansUp ==
  /\ [][\A s \in StoreIds : DestructorEnds(s) => CleanedUp(s)]_vars
  /\ [](\A s \in StoreIds :
          dtor[s] = "free" => \A k \in DOMAIN map_ : map_[k] # s)
  /\ \A s \in StoreIds :
       (dtor[s] # "none") ~> (dtor[s] = "none" /\ ~store[s].live)

\* C21: a phase makes at most three attempts (at most two have failed when
\* one is made) and sends a memory-pressure notification only between
\* attempts, so at most two per phase and none after the last attempt.
C21_NotifiesOnlyBetweenAttempts ==
  /\ alloc.i <= 2
  /\ alloc.requests <= 2
  /\ last.requests <= 2

\* The reservations of the stores that exist.
ReservedByStores(st) ==
  SumSeq([k \in 1..MaxStores |->
            IF st[k].live THEN StoreReservation(st[k]) ELSE 0])

\* The second run of TryAllocateWasmMemory starts in this step.
SecondRunStarts == alloc.run = 1 /\ alloc'.run = 2

\* A run gives up: only phases 1 and 2 return empty.
RunFails == alloc.pc \in {"phase1", "phase2"} /\ RunFailsIn(alloc.pc)

\* C22: AllocateWasmMemory makes at most two runs; the second starts only
\* when the first gave up and maximum_pages > initial_pages, it asks for
\* maximum = initial, and it starts with nothing of the first run reserved;
\* the call returns empty only when no further run was due.
C22_RetriesOnceWithInitial ==
  [][/\ alloc'.run \in 0..2
     /\ SecondRunStarts =>
          /\ RunFails
          /\ alloc.maximum_pages > alloc.initial_pages
          /\ alloc'.pc = "phase1"
          /\ alloc'.initial_pages = alloc.initial_pages
          /\ alloc'.maximum_pages = alloc.initial_pages
          /\ alloc'.allocation_base = nullptr
          /\ fatal' = "none" =>
               reserved_address_space_' = ext_held' + ReservedByStores(store')
     /\ (RunFails /\ alloc'.pc = "idle") =>
          /\ ~last'.ok
          /\ alloc.run = 2 \/ ~(alloc.maximum_pages > alloc.initial_pages)
     /\ (RunFails /\ alloc.run = 1
           /\ alloc.maximum_pages > alloc.initial_pages) =>
          SecondRunStarts]_vars

\* The first run gave up in phase 2 and the second, with maximum = initial,
\* has its pages.
C22_Witness ==
  /\ fatal = "none"
  /\ alloc.run = 2
  /\ alloc.pc = "phase3"
  /\ alloc.maximum_pages = alloc.initial_pages
  /\ alloc.req_maximum > alloc.initial_pages

\* C23: Allocate(0) does not call the embedder's allocator and returns a
\* store with null start and length = capacity = 0; Allocate(n), n > 0,
\* calls it, returns empty exactly when it returned null, and otherwise
\* returns a store at the returned address that is not a Wasm memory, frees
\* its memory on destruction and has capacity = length = n.
C23_AllocateZeroOrAsAllocatorSays ==
  last.op = "Allocate" =>
    IF last.arg = 0
      THEN /\ ~last.called
           /\ last.ok
           /\ store[last.store].live
           /\ store[last.store].buffer_start_ = nullptr
           /\ store[last.store].byte_length_ = 0
           /\ store[last.store].byte_capacity_ = 0
      ELSE /\ last.called
           /\ last.ok <=> last.got # nullptr
           /\ ~last.ok => last.store = 0
           /\ last.ok =>
                /\ store[last.store].live
                /\ store[last.store].buffer_start_ = last.got
                /\ store[last.store].byte_length_ = last.arg
                /\ store[last.store].byte_capacity_ = last.arg
                /\ ~store[last.store].is_wasm_memory_
                /\ ~store[last.store].has_guard_regions_
                /\ store[last.store].free_on_destruct_
                /\ store[last.store].data.kind = "allocator"

\* A zero-length request has just returned its store.
C23_Witness ==
  /\ last.op = "Allocate"
  /\ last.arg = 0
  /\ last.ok
  /\ store[last.store].live
  /\ store[last.store].buffer_start_ = nullptr

\* WrapAllocation returns store s in this step.
WrapStep(s) ==
  /\ ~store[s].live
  /\ store'[s].live
  /\ last'.op = "WrapAllocation"
  /\ last'.store = s

\* The destructor of store s runs in this step.
DropStep(s) ==
  /\ store[s].live
  /\ ~store'[s].live
  /\ last'.op = "~BackingStore"
  /\ last'.store = s

\* C24: WrapAllocation changes neither the pages nor the reserved counter
\* and returns a store with capacity = length that is no Wasm memory;
\* destroying such a store leaves pages and counter alone and passes its
\* start to the allocator's Free exactly when free_on_destruct is set and
\* the start is not null.
C24_WrapTouchesNoPages ==
  [][\A s \in StoreIds :
       /\ WrapStep(s) =>
            /\ pages' = pages
            /\ reserved_address_space_' = reserved_address_space_
            /\ store'[s].byte_capacity_ = store'[s].byte_length_
            /\ store'[s].buffer_start_ = last'.arg
            /\ ~store'[s].is_wasm_memory_
            /\ ~store'[s].has_guard_regions_
       /\ (DropStep(s) /\ ~store[s].is_wasm_memory_) =>
            /\ pages' = pages
            /\ reserved_address_space_' = reserved_address_space_
            /\ last'.called <=>
                 (store[s].free_on_destruct_
                    /\ store[s].buffer_start_ # nullptr)
            /\ last'.called => last'.got = store[s].buffer_start_]_vars

\* A wrapper that does not own its memory has been destroyed next to a
\* Wasm memory whose pages and reservation are still in place.
C24_Witness ==
  /\ last.op = "~BackingStore"
  /\ ~last.called
  /\ \E s \in LiveStores : store[s].is_wasm_memory_
  /\ pages # {}
  /\ reserved_address_space_ # 0

\* ---------------------------------------------------------------------------
\* Copying a Wasm memory to any requested length, shorter ones included.

CopyLengths == {0, 1 * kWasmPageSize, 5 * kWasmPageSize, 11 * kWasmPageSize}
CopyGrowChoices == {5}

CopyInit ==
  /\ arch \in {"x64", "ia32"}
  /\ DEBUG \in BOOLEAN
  /\ PremadeInit("plain")

CopyNext ==
  \/ \E old \in StoreIds, n \in CopyLengths : CopyWasmMemory(old, n)
  \/ Phase1Attempt
  \/ Phase2Attempt
  \/ Phase3Attempt
  \/ \E s \in StoreIds, n \in CopyGrowChoices : GrowWasmMemoryInPlace(s, n)
  \/ \E s \in StoreIds : DropStore(s)

SpecCopy == CopyInit /\ [][CopyNext]_vars

\* The step on which CopyWasmMemory returns the new store.
CopyCompletes ==
  /\ alloc.old # 0
  /\ alloc.pc = "phase3"
  /\ alloc'.pc = "idle"
  /\ last'.op = "CopyWasmMemory"
  /\ last'.ok

\* C25: CopyWasmMemory copies exactly min(old length, new length) bytes,
\* stays within the accessible length of both stores for every new length,
\* shorter than the old one included, and leaves the old store as it was.
C25_CopiesWithinBothStores ==
  [][CopyCompletes =>
       LET old == store[alloc.old]
           new == store'[last'.store]
           new_byte_length == alloc.initial_pages * kWasmPageSize
       IN /\ last'.copied = Min(old.byte_length_, new_byte_length)
          /\ last'.copied <= new.byte_length_
          /\ last'.copied <= old.byte_length_
          /\ fatal' = "none"
          /\ store'[alloc.old] = old]_vars

\* ---------------------------------------------------------------------------
\* What each way of making a store puts into type_specific_data_.

MakeInitialChoices == {1}
MakeMaximumChoices == {10}
MakeLengths == {0, 1}

MakeInit == Init /\ arch \in {"x64", "ia32"}

MakeNext ==
  \/ \E i \in MakeInitialChoices, m \in MakeMaximumChoices, sh \in BOOLEAN :
       AllocateWasmMemory(i, m, sh)
  \/ Phase1Attempt
  \/ Phase2Attempt
  \/ Phase3Attempt
  \/ \E n \in MakeLengths, sh \in BOOLEAN, granted \in BOOLEAN :
       Allocate(n, sh, granted)
  \/ \E p \in WrapPointers, sh \in BOOLEAN, f \in BOOLEAN :
       WrapAllocation(p, sh, f)
  \/ \E s \in StoreIds : DropStore(s)

SpecMake == MakeInit /\ [][MakeNext]_vars

\* Lines 458-471: which member of type_specific_data_ a store carries.
HasAllocator(bs) == bs.data.kind = "allocator" /\ bs.data.ptr # nullptr
HasAnchor(bs) == bs.data.kind = "list" /\ bs.data.ptr # nullptr

\* C26 as stated: every store carries exactly one of the allocator and the
\* anchor, the anchor exactly when it is a shared Wasm memory and the
\* allocator otherwise, and guard regions only belong to Wasm memories.
C26_AnchorOrElseAllocator ==
  \A s \in LiveStores :
    LET bs == store[s] IN
    /\ HasAnchor(bs) # HasAllocator(bs)
    /\ HasAnchor(bs) <=> (bs.is_wasm_memory_ /\ bs.is_shared_)
    /\ HasAllocator(bs) <=> ~(bs.is_wasm_memory_ /\ bs.is_shared_)
    /\ bs.has_guard_regions_ => bs.is_wasm_memory_

\* C26 amended: a store carries the anchor exactly when it is a shared Wasm
\* memory and the allocator exactly when it is not a Wasm memory; a Wasm
\* memory that is not shared carries neither; guard regions only belong to
\* Wasm memories.
C26_AnchorSharedWasmAllocatorNonWasm ==
  \A s \in LiveStores :
    LET bs == store[s] IN
    /\ ~(HasAnchor(bs) /\ HasAllocator(bs))
    /\ HasAnchor(bs) <=> (bs.is_wasm_memory_ /\ bs.is_shared_)
    /\ HasAllocator(bs) <=> ~bs.is_wasm_memory_
    /\ (bs.is_wasm_memory_ /\ ~bs.is_shared_) =>
         ~HasAnchor(bs) /\ ~HasAllocator(bs)
    /\ bs.has_guard_regions_ => bs.is_wasm_memory_

C26_Witness ==
  /\ \E s \in LiveStores :
       /\ store[s].is_wasm_memory_
       /\ ~store[s].is_shared_
       /\ store[s].has_guard_regions_
       /\ ~HasAllocator(store[s])
       /\ ~HasAnchor(store[s])
  /\ \E s \in LiveStores : HasAllocator(store[s]) /\ store[s].is_shared_
  /\ last.op = "WrapAllocation"

\* ---------------------------------------------------------------------------
\* The anchor and the shape of the attachment list, under Attach and under
\* Purge with any Isolate* argument.

PurgeArguments == Isolates \cup {nullptr}

AnchorNext ==
  \/ \E s \in StoreIds : RegisterCall(s)
  \/ \E s \in StoreIds : UnregisterCall(s)
  \/ \E c \in Isolates, s \in StoreIds : AttachSharedWasmMemoryObject(c, s)
  \/ \E v \in ViewIds : CollectMemoryObject(v)
  \/ \E c \in PurgeArguments : PurgeCall(c)

SpecAnchor == PurgeInit /\ [][AnchorNext]_vars

\* Lines 338-342: the anchor, made with no isolate and no memory object.
IsAnchor(nd, n) ==
  /\ nd[n].used
  /\ nd[n].isolate_ = nullptr
  /\ nd[n].memory_object_ = nullptr
  /\ nd[n].prev_ = nullptr

\* C27: while a shared Wasm store is alive its anchor is allocated, carries
\* no isolate and no memory object and is the head of the list, whatever
\* operation ran and whatever isolate pointer it was given.
C27_AnchorStaysWhileStoreLives ==
  \A s \in SharedWasmStores(store) : IsAnchor(node, store[s].data.ptr)

\* Lines 107-128: the list of a store as a doubly linked list from its anchor.
ListOf(st, nd, s) == ListFrom(nd, st[s].data.ptr, MaxNodes + 1)

WellFormedList(nd, list) ==
  /\ Len(list) \in 1..MaxNodes
  /\ nd[list[1]].prev_ = nullptr
  /\ \A i, j \in 1..Len(list) : i # j => list[i] # list[j]
  /\ nd[list[Len(list)]].next_ = nullptr
  /\ \A i \in 1..Len(list) :
       /\ nd[list[i]].used
       /\ nd[list[i]].next_ # nullptr => nd[nd[list[i]].next_].prev_ = list[i]

\* C28: after any Attach and Purge operations the list of a live shared Wasm
\* store starts at its anchor, whose prev_ is null, has no cycle, ends in a
\* node whose next_ is null, links every node back from its successor, and
\* holds every allocated node exactly once.
C28_ListWellFormed ==
  /\ \A s \in SharedWasmStores(store) :
       /\ IsAnchor(node, store[s].data.ptr)
       /\ WellFormedList(node, ListOf(store, node, s))
  /\ \A n \in NodeIds :
       node[n].used =>
         Cardinality({p \in SharedWasmStores(store) \X (1..MaxNodes + 1) :
                        /\ p[2] <= Len(ListOf(store, node, p[1]))
                        /\ ListOf(store, node, p[1])[p[2]] = n}) = 1

\* The list of s changes on this step.
ListChanges(s) == Attachments(store', node', s) # Attachments(store, node, s)

\* C29: AddSharedWasmMemoryObject links the new node right after the anchor
\* and in front of all nodes attached before it, which stay linked in their
\* order, so the list holds the attachments newest first; the list changes
\* only on a step of a thread that could take the registry mutex.
C29_AttachLinksAfterAnchor ==
  /\ [][\A s \in SharedWasmStores(store) :
          ListChanges(s) =>
            /\ \E entry \in NodeIds :
                 /\ ~node[entry].used
                 /\ node'[entry].used
                 /\ node'[store[s].data.ptr].next_ = entry
                 /\ node'[entry].prev_ = store[s].data.ptr
                 /\ Attachments(store', node', s)
                      = <<entry>> \o Attachments(store, node, s)
            /\ mutex_ = nullptr
            /\ mutex_' = nullptr]_vars
  /\ [](\A s \in SharedWasmStores(store) :
          LET list == Attachments(store, node, s) IN
          \A i, j \in 1..Len(list) :
            i < j => node[list[i]].memory_object_
                       > node[list[j]].memory_object_)

C29_Witness ==
  \E s \in SharedWasmStores(store) :
    LET list == Attachments(store, node, s) IN
    /\ Len(list) = 2
    /\ node[list[1]].memory_object_ = 2
    /\ node[list[2]].memory_object_ = 1
    /\ node[store[s].data.ptr].next_ = list[1]
    /\ node[list[2]].prev_ = list[1]

\* ---------------------------------------------------------------------------
\* UpdateSharedWasmMemoryObjects and the lengths that memory objects report.

\* The live memory objects of isolate c.
LiveViewsOf(c) ==
  {v \in ViewIds : view[v].state = "live" /\ view[v].isolate = c}

\* UpdateSharedWasmMemoryObjects(c) returns on this step.
UpdateReturns(c) == upd[c].pc = "update" /\ upd'[c].pc = "idle"

\* No store grew since the call of c began.
NoGrowthDuring(c) == ByteLengths(store) = upd[c].seen

\* C30: UpdateSharedWasmMemoryObjects(C) gives a new buffer to a live memory
\* object of C exactly when the length it reports differs from that of its
\* store, and when no store grew during the call every live memory object
\* of C reports the length of its store once the call has returned.
C30_UpdateReconcilesEveryView ==
  [][\A c \in Isolates :
       /\ (upd[c].pc = "update" /\ upd'[c] # upd[c]) =>
            \A v \in LiveViewsOf(c) :
              view'[v] # view[v] <=>
                /\ upd[c].memory_objects # <<>>
                /\ v = Head(upd[c].memory_objects)
                /\ view[v].byte_length
                     # store[view[v].buffer_store].byte_length_
       /\ (UpdateReturns(c) /\ NoGrowthDuring(c)) =>
            \A v \in LiveViewsOf(c) :
              view'[v].byte_length
                = store'[view[v].buffer_store].byte_length_]_vars

\* ---------------------------------------------------------------------------
\* Purge and UpdateSharedWasmMemoryObjects over a registry that holds stores
\* of every kind.

SkipInit ==
  /\ arch = "x64"
  /\ DEBUG = FALSE
  /\ \E population \in {"plain", "shared"} : PremadeInit(population)

SkipNext ==
  \/ \E p \in WrapPointers, sh \in BOOLEAN, f \in BOOLEAN :
       WrapAllocation(p, sh, f)
  \/ \E s \in StoreIds : RegisterCall(s)
  \/ \E c \in Isolates, s \in StoreIds : AttachSharedWasmMemoryObject(c, s)
  \/ \E c \in Isolates : PurgeCall(c)
  \/ \E c \in Isolates : UpdateLock(c)
  \/ \E c \in Isolates : UpdateGather(c)
  \/ \E c \in Isolates : UpdateStep(c)
  \/ \E c \in Isolates : UpdateReturn(c)

SpecSkip == SkipInit /\ [][SkipNext]_vars

\* Purge runs on this step, or UpdateSharedWasmMemoryObjects walks the map.
PurgeRuns ==
  /\ last'.op = "Purge"
  /\ mutex_ = nullptr /\ mutex_' = nullptr
  /\ upd' = upd /\ view' = view /\ map_' = map_
  /\ (last' # last \/ fatal' # fatal \/ node' # node)
UpdateGathers == \E c \in Isolates : upd[c].pc = "gather" /\ upd'[c] # upd[c]

\* The registered live stores that are no shared Wasm memories.
RegisteredOthers ==
  {s \in LiveStores :
     /\ \E k \in DOMAIN map_ : map_[k] = s
     /\ ~(store[s].is_wasm_memory_ /\ store[s].is_shared_)}

\* C31: Purge and UpdateSharedWasmMemoryObjects skip every registered store
\* that is not a shared Wasm memory, without an error and without changing
\* it, whatever else is registered.
C31_SkipsOtherStores ==
  [][(PurgeRuns \/ UpdateGathers) =>
       /\ fatal' = "none"
       /\ \A s \in RegisteredOthers : store'[s] = store[s]]_vars

\* ---------------------------------------------------------------------------
\* The registry mutex against every operation that touches the map or a list:
\* Register, Unregister, Attach, Purge, Broadcast and the destructor, run by
\* several threads.

\* A broadcast holds its shared_ptr to the store until it returns.
HeldByBroadcast(s) ==
  \E c \in Isolates : bcast[c].pc # "idle" /\ bcast[c].store = s

MutexInit ==
  /\ arch = "x64"
  /\ DEBUG = FALSE
  /\ PremadeInit("shared")

\* The thread of MutexBroadcaster attaches and broadcasts; the other
\* threads register, unregister, purge and drop stores meanwhile.
MutexBroadcaster == 1
MutexAttachments == 1

MutexNext ==
  \/ WrapAllocation(ExternalPointer, FALSE, FALSE)
  \/ \E s \in StoreIds : Owned(s) /\ RegisterCall(s)
  \/ \E s \in StoreIds : Owned(s) /\ UnregisterCall(s)
  \/ \E s \in StoreIds :
       /\ Owned(s)
       /\ Cardinality({v \in ViewIds : view[v].state # "none"})
            < MutexAttachments
       /\ AttachSharedWasmMemoryObject(MutexBroadcaster, s)
  \/ \E v \in ViewIds : CollectMemoryObject(v)
  \/ \E c \in Isolates \ {MutexBroadcaster} : PurgeCall(c)
  \/ \E s \in StoreIds :
       /\ Owned(s)
       /\ BroadcastLock(MutexBroadcaster, s, store[s].byte_length_)
  \/ BroadcastGather(MutexBroadcaster)
  \/ BroadcastUpdate(MutexBroadcaster)
  \/ BroadcastReturn(MutexBroadcaster)
  \/ \E s \in StoreIds : ~HeldByBroadcast(s) /\ ReleaseLastReference(s)
  \/ \E s \in StoreIds : DestructorUnregister(s)
  \/ \E s \in StoreIds : DestructorFree(s)

SpecMutex == MutexInit /\ [][MutexNext]_vars

\* What the registry reaches: the map, and for every entry of a live shared
\* Wasm memory the nodes of its list, anchor first, with their contents.
RegistryReach ==
  [map |-> map_,
   lists |-> [k \in DOMAIN map_ |->
                LET bs == store[map_[k]] IN
                IF bs.live /\ bs.is_wasm_memory_ /\ bs.is_shared_
                   /\ bs.data.kind = "list" /\ bs.data.ptr # nullptr
                  THEN LET list == ListFrom(node, bs.data.ptr, MaxNodes + 1)
                       IN [i \in 1..Len(list) |-> <<list[i], node[list[i]]>>]
                  ELSE <<>>]]

PurgeLock(isolate) ==
  /\ fatal = "none"
  /\ walk.pc = "idle"
  /\ bcast[isolate].pc = "idle" /\ upd[isolate].pc = "idle"
  /\ mutex_ = nullptr
  /\ mutex_' = isolate
  /\ walk' = [IdleWalk EXCEPT !.pc = "entry", !.isolate = isolate,
                              !.keys = DOMAIN map_]
  /\ UNCHANGED <<build, dtor, reserved_address_space_, underflow, upd>>
  /\ UNCHANGED storeVars
  /\ UNCHANGED acctVars
  /\ UNCHANGED shareVars

\* Lines 539-553: the body of the loop for the next entry.  lock() yields
\* null when the store has no owner left; otherwise backing_store owns the
\* store until the body ends.
PurgeEntry ==
  /\ fatal = "none"
  /\ walk.pc = "entry"
  /\ walk.keys # {}
  /\ LET key == CHOOSE k \in walk.keys : \A j \in walk.keys : k <= j
         s == map_[key]
     IN
     IF ~Owned(s)
       THEN /\ walk' = [walk EXCEPT !.keys = @ \ {key}]
            /\ UNCHANGED <<reserved_address_space_, underflow, store, pages,
                           node, map_, fatal>>
       ELSE /\ SetHeap(PurgeEntries(Heap, {key}, walk.isolate))
            /\ walk' = [walk EXCEPT !.keys = @ \ {key}, !.pc = "end",
                                    !.backing_store = s]
  /\ UNCHANGED <<build, dtor, alloc, ext_held, last>>
  /\ UNCHANGED acctVars
  /\ UNCHANGED shareVars
  /\ UNCHANGED lockVars

\* Another thread gives up the last shared_ptr to the store other than the
\* one the loop body holds.
ReleaseLastOtherReference(s) ==
  /\ fatal = "none"
  /\ alloc.pc = "idle"
  /\ Owned(s)
  /\ ~HeldByView(s)
  /\ walk.pc = "end" /\ walk.backing_store = s /\ ~walk.last_owner
  /\ walk' = [walk EXCEPT !.last_owner = TRUE]
  /\ UNCHANGED <<build, dtor, reserved_address_space_, underflow>>
  /\ UNCHANGED storeVars
  /\ UNCHANGED acctVars
  /\ UNCHANGED shareVars
  /\ UNCHANGED lockVars

\* Line 554, the end of the loop body: backing_store goes out of scope.  If
\* it was the last owner, ~BackingStore runs here, on the thread that holds
\* the mutex: the store of a map entry is registered, so line 139 calls
\* Unregister, whose MutexGuard (line 510) waits for the mutex its own thread
\* holds.
PurgeEntryEnd ==
  /\ fatal = "none"
  /\ walk.pc = "end"
  /\ IF walk.last_owner /\ store[walk.backing_store].globally_registered_
       THEN /\ fatal' = "deadlock"
            /\ UNCHANGED walk
       ELSE /\ walk' = [walk EXCEPT !.pc = "entry", !.backing_store = 0,
                                    !.last_owner = FALSE]
            /\ UNCHANGED fatal
  /\ UNCHANGED <<build, dtor, reserved_address_space_, underflow, store,
                 pages, node, map_, alloc, ext_held, last>>
  /\ UNCHANGED acctVars
  /\ UNCHANGED shareVars
  /\ UNCHANGED lockVars

\* Line 555: the loop is over, the MutexGuard releases the mutex.
PurgeUnlock ==
  /\ fatal = "none"
  /\ walk.pc = "entry"
  /\ walk.keys = {}
  /\ mutex_' = ScopeExit(walk.isolate)
  /\ last' = Returned("Purge", 0, walk.isolate, TRUE)
  /\ walk' = IdleWalk
  /\ UNCHANGED <<build, dtor, reserved_address_space_, underflow, store,
                 pages, node, map_, alloc, ext_held, fatal, upd>>
  /\ UNCHANGED acctVars
  /\ UNCHANGED shareVars

WalkInit ==
  /\ arch = "x64"
  /\ DEBUG = FALSE
  /\ PremadeInit("shared")

WalkNext ==
  \/ \E p \in WrapPointers : WrapAllocation(p, FALSE, FALSE)
  \/ \E s \in StoreIds : Owned(s) /\ RegisterCall(s)
  \/ \E c \in Isolates, s \in StoreIds :
       Owned(s) /\ AttachSharedWasmMemoryObject(c, s)
  \/ \E v \in ViewIds : CollectMemoryObject(v)
  \/ \E c \in Isolates : PurgeLock(c)
  \/ PurgeEntry
  \/ PurgeEntryEnd
  \/ PurgeUnlock
  \/ \E s \in StoreIds : ReleaseLastOtherReference(s)
  \/ \E s \in StoreIds : walk.backing_store # s /\ ReleaseLastReference(s)
  \/ \E s \in StoreIds : DestructorUnregister(s)
  \/ \E s \in StoreIds : DestructorFree(s)

SpecWalk == WalkInit /\ [][WalkNext]_vars

\* C33: no thread runs ~BackingStore while it holds the registry mutex: the
\* shared_ptr that Purge takes from a map entry is never the last owner when
\* it is released, so the destructor's Unregister never waits for a mutex
\* that its own thread holds.
C33_NoDestructorUnderMutex ==
  /\ fatal # "deadlock"
  /\ ~(walk.pc = "end" /\ walk.last_owner /\ mutex_ = walk.isolate)

\* ---------------------------------------------------------------------------
\* The counter against the stores that exist, with no other user of the
\* address space.

QuietInitialChoices == {1, 10}
QuietMaximumChoices == {1, 10, kV8MaxWasmMemoryPages + 1}
QuietCopySizes == {11 * kWasmPageSize, (kV8MaxWasmMemoryPages + 1) * kWasmPageSize}

QuietInit == Init /\ arch \in {"x64", "ia32"}

QuietNext ==
  \/ \E i \in QuietInitialChoices, m \in QuietMaximumChoices :
       AllocateWasmMemory(i, m, FALSE)
  \/ \E old \in StoreIds, n \in QuietCopySizes : CopyWasmMemory(old, n)
  \/ Phase1Attempt
  \/ Phase2Attempt
  \/ Phase3Attempt
  \/ \E s \in StoreIds : DropStore(s)

SpecQuiet == QuietInit /\ [][QuietNext]_vars

\* Lines 263-271 and 167-168: what the creation of a Wasm memory reserved,
\* which is what its destructor releases.
ReservedAtCreation(bs) ==
  IF bs.has_guard_regions_ THEN 10 * GB ELSE bs.byte_capacity_

LiveWasmStores(st) == {s \in StoreIds : st[s].live /\ st[s].is_wasm_memory_}

RECURSIVE SumReserved(_, _)
SumReserved(st, S) ==
  IF S = {} THEN 0
  ELSE LET s == CHOOSE x \in S : TRUE
       IN ReservedAtCreation(st[s]) + SumReserved(st, S \ {s})

\* No allocation is in progress and the process runs.
Quiescent == alloc.pc = "idle" /\ fatal = "none"

\* C34: whenever no allocation is in progress the counter is the sum, over
\* the live Wasm memories, of what their creation reserved (10 GB with guard
\* regions, the capacity without); a destructor releases exactly that, and
\* a failed allocation or copy leaves nothing reserved.
C34_CounterIsSumOfStores ==
  /\ [](Quiescent =>
          /\ reserved_address_space_
               = SumReserved(store, LiveWasmStores(store))
          /\ ~underflow)
  /\ [][\A s \in StoreIds :
          (DropStep(s) /\ store[s].is_wasm_memory_) =>
            reserved_address_space_'
              = reserved_address_space_ - ReservedAtCreation(store[s])]_vars

C34_Witness ==
  /\ Quiescent
  /\ last.op = "CopyWasmMemory"
  /\ ~last.ok
  /\ last.status = "kOtherFailure"
  /\ LiveWasmStores(store) # {}
  /\ reserved_address_space_ > 0

\* GrowWasmMemoryInPlace returns on this step, for store s.
GrowReturns(s) ==
  /\ last'.op = "GrowWasmMemoryInPlace"
  /\ last'.store = s
  /\ (last' # last \/ store' # store)

\* C35: a grow to a length above the current one and within the capacity
\* that is refused the permissions returns false, keeps the length and
\* reports no delta; one that gets them returns true, sets the length to the
\* new one and reports the difference once; start, capacity, flags and the
\* registry are as before in both cases.
C35_GrowWithinCapacity ==
  [][\A s \in StoreIds :
       LET old == store[s]
           new_byte_length == last'.arg * kWasmPageSize
       IN (/\ GrowReturns(s)
           /\ old.byte_length_ < new_byte_length
           /\ new_byte_length <= old.byte_capacity_) =>
            /\ last'.perm
            /\ IF last'.ok
                 THEN /\ store'[s].byte_length_ = new_byte_length
                      /\ last'.notified
                      /\ last'.delta = new_byte_length - old.byte_length_
                 ELSE /\ store'[s].byte_length_ = old.byte_length_
                      /\ ~last'.notified
                      /\ last'.delta = 0
            /\ store' = [store EXCEPT ![s].byte_length_
                                        = store'[s].byte_length_]
            /\ map_' = map_
            /\ pages' = pages
            /\ reserved_address_space_' = reserved_address_space_]_vars

C35_Witness ==
  /\ last.op = "GrowWasmMemoryInPlace"
  /\ last.perm
  /\ ~last.ok
  /\ store[last.store].live
  /\ store[last.store].byte_length_ < last.arg * kWasmPageSize
  /\ last.arg * kWasmPageSize <= store[last.store].byte_capacity_

\* This step is a Lookup of an address whose entry's store has already lost
\* its last owner (line 530: lock() yields an empty pointer).
LookupOfExpired ==
  /\ last'.op = "Lookup"
  /\ last' # last \/ fatal' # fatal
  /\ last'.arg \in DOMAIN map_
  /\ dtor[map_[last'.arg]] # "none"

\* This step is Register, Unregister or the Unregister of a destructor.
RegistryWriter ==
  \/ last' # last /\ last'.op \in {"Register", "Unregister"}
  \/ \E s \in StoreIds : dtor[s] = "unregister" /\ dtor'[s] = "free"

\* C36: a Lookup that meets an entry whose weak reference has expired
\* reports not-found without error, and the key set of the registry changes
\* only in Register, Unregister and the Unregister run by a destructor.
C36_ExpiredSkippedKeysFramed ==
  [][/\ LookupOfExpired => (fatal' = "none" /\ ~last'.ok)
     /\ DOMAIN map_' # DOMAIN map_ => RegistryWriter]_vars

\* This step is the return of CopyWasmMemory (lines 381-390).
CopyReturns == last'.op = "CopyWasmMemory" /\ last' # last

\* C37: CopyWasmMemory returns a store only when the guard-region flag of
\* the new store equals the source's; the store it returns is a Wasm memory
\* of the requested length with the source's shared flag in a region of its
\* own; when it fails it returns empty; the source is unchanged either way.
C37_CopyReturnsMatchingStoreOrEmpty ==
  [][CopyReturns =>
       IF last'.ok
         THEN LET old == store[alloc.old]
                  new == store'[last'.store]
              IN /\ fatal' = "none"
                 /\ last'.store # alloc.old
                 /\ new.live
                 /\ new.is_wasm_memory_
                 /\ new.has_guard_regions_ = old.has_guard_regions_
                 /\ new.is_shared_ = old.is_shared_
                 /\ new.byte_length_ = alloc.initial_pages * kWasmPageSize
                 /\ new.buffer_start_ # old.buffer_start_
                 /\ store'[alloc.old] = old
         ELSE /\ fatal' = "none"
              /\ last'.store = 0
              /\ \A s \in StoreIds : store[s].live => store'[s] = store[s]]_vars

\* ---------------------------------------------------------------------------
\* The allocation-status samples of a request.

SuccessKinds == {"kSuccess", "kSuccessAfterRetry"}
FailureKinds == {"kAddressSpaceLimitReachedFailure", "kOtherFailure"}

\* Lines 237-241: a run of TryAllocateWasmMemory begins in this step.
RunStarts ==
  /\ alloc'.pc = "phase1"
  /\ alloc.pc = "idle" \/ alloc'.run # alloc.run

\* Lines 248-249: an attempt of the current phase fails and another follows.
AttemptFailsInRun ==
  /\ alloc.pc # "idle"
  /\ alloc'.pc = alloc.pc
  /\ alloc'.run = alloc.run
  /\ alloc'.i = alloc.i + 1

\* An attempt succeeds and the run goes on to its next phase.
PhaseSucceeds ==
  /\ alloc.pc \in {"phase1", "phase2"}
  /\ alloc'.pc \in {"phase2", "phase3"}
  /\ alloc'.pc # alloc.pc

\* Lines 326-344: the run has committed the pages and creates the store.
RunCreatesStore ==
  /\ alloc.pc = "phase3"
  /\ alloc'.pc = "idle"

\* The samples a request has recorded when it returns in this step: the one
\* of its first run when there was a second, and the one of the run that
\* ends now.
SamplesAtReturn ==
  (IF alloc.run = 2 THEN <<alloc.status>> ELSE <<>>) \o <<last'.status>>

\* C38: a run that returns records one status: kSuccess when no attempt of
\* it failed, kSuccessAfterRetry when the store was created after a failed
\* attempt, kAddressSpaceLimitReachedFailure when phase 1 gave up and
\* kOtherFailure when phase 2 gave up; a request records at most two, of
\* which at most one is a success.
C38_OneStatusPerRun ==
  [][/\ RunStarts => ~alloc'.did_retry
     /\ AttemptFailsInRun => alloc'.did_retry
     /\ PhaseSucceeds => alloc'.did_retry = alloc.did_retry
     /\ RunCreatesStore =>
          /\ last'.status = IF alloc.did_retry THEN "kSuccessAfterRetry"
                                               ELSE "kSuccess"
          /\ alloc.did_retry \/ alloc.i = 0
     /\ \A pc \in {"phase1", "phase2"} :
          RunFailsIn(pc) =>
            LET sample == IF alloc'.pc = "idle" THEN last'.status
                                                ELSE alloc'.status
            IN sample = IF pc = "phase1"
                          THEN "kAddressSpaceLimitReachedFailure"
                          ELSE "kOtherFailure"
     /\ (alloc.pc # "idle" /\ alloc'.pc = "idle") =>
          /\ Len(SamplesAtReturn) <= 2
          /\ \A k \in 1..Len(SamplesAtReturn) :
               SamplesAtReturn[k] \in SuccessKinds \cup FailureKinds
          /\ Cardinality({k \in 1..Len(SamplesAtReturn) :
                            SamplesAtReturn[k] \in SuccessKinds}) <= 1
          /\ alloc.run = 2 => alloc.status \in FailureKinds]_vars

\* The second run of a request is about to create the store after a failed
\* attempt, the first run having recorded its failure.
C38_Witness ==
  /\ alloc.run = 2
  /\ alloc.pc = "phase3"
  /\ alloc.did_retry
  /\ alloc.status \in FailureKinds
  /\ fatal = "none"

\* ---------------------------------------------------------------------------
\* Termination: the managed allocation next to threads that reserve and
\* release address space through the compare-and-swap loop.

\* The threads that call ReserveAddressSpace and ReleaseReservation.
TermThreads == {1, 2}
TermInitialChoices == {1}
TermMaximumChoices == {10}
\* The amounts they ask for: one that fits, and one that fits only while the
\* counter is zero.
TermSizes == {GB, kAddressSpaceLimit("x64")}

TermInit == Init /\ arch = "x64"

TermNext ==
  \/ \E i \in TermInitialChoices, m \in TermMaximumChoices :
       LiveStores = {} /\ AllocateWasmMemory(i, m, FALSE)
  \/ Phase1Attempt
  \/ Phase2Attempt
  \/ Phase3Attempt
  \/ \E s \in StoreIds : DropStore(s)
  \/ \E t \in TermThreads :
       held[t] = <<>> /\ ReserveCall(t) /\ thr'[t].num_bytes \in TermSizes
  \/ \E t \in TermThreads : ReserveLoad(t)
  \/ \E t \in TermThreads : ReserveCas(t)
  \/ \E t \in TermThreads : ReleaseReservation(t)

SpecTerm == TermInit /\ [][TermNext]_vars

\* Lines 91-92: compare_exchange_weak fails although the counter still holds
\* the value the thread loaded.
SpuriousFailure(t) ==
  /\ thr[t].pc = "cas"
  /\ reserved_address_space_ = thr[t].old_count
  /\ thr'[t].pc = "load"

\* Fair scheduling: a thread inside ReserveAddressSpace and a running
\* allocation keep taking steps, and compare_exchange_weak does not fail
\* spuriously for ever.  Callers are free to stop calling.
SpecTermFair ==
  /\ SpecTerm
  /\ WF_vars(Phase1Attempt)
  /\ WF_vars(Phase2Attempt)
  /\ WF_vars(Phase3Attempt)
  /\ \A t \in TermThreads :
       /\ WF_vars(ReserveLoad(t))
       /\ WF_vars(ReserveCas(t))
       /\ <>[][~SpuriousFailure(t)]_vars

\* Some operation changes the counter in this step.
CounterMoves == reserved_address_space_' # reserved_address_space_

\* A managed allocation that was started ends: a store, an empty result, or
\* the fatal state.
AllocationEnds == (alloc.pc # "idle") ~> (alloc.pc = "idle" \/ fatal # "none")

\* No phase of a run is attempted more than three times.
AtMostThreeAttempts == [][AttemptFailsInRun => alloc'.i <= 2]_vars

OversizedRequestReturns ==
  /\ last'.op = "AllocateWasmMemory"
  /\ last'.arg > kV8MaxWasmMemoryPages
  /\ last' # last

\* C40: AllocateWasmMemory with initial_pages above the engine's maximum
\* returns empty at once, whatever maximum_pages is: it starts no run,
\* reserves no address space, does no page operation, asks for no collection
\* and records no status.
C40_OversizedInitialRefusedAtOnce ==
  [][OversizedRequestReturns =>
       /\ alloc.pc = "idle"
       /\ alloc' = alloc
       /\ ~last'.ok
       /\ last'.store = 0
       /\ last'.status = "none"
       /\ last'.requests = 0
       /\ ~last'.notified
       /\ reserved_address_space_' = reserved_address_space_
       /\ pages' = pages
       /\ store' = store
       /\ fatal' = "none"]_vars

\* An oversized request has returned empty while other users hold address
\* space.
C40_Witness ==
  /\ last.op = "AllocateWasmMemory"
  /\ last.arg > kV8MaxWasmMemoryPages
  /\ ~last.ok
  /\ reserved_address_space_ # 0

====
